---- MODULE Spec2Model ----
(***************************************************************************)
(* Verification model of the metacells divide-and-conquer core:            *)
(*   - the Improver of tools/candidates.py (split / merge / pack / fill),  *)
(*   - the driver of pipeline/divide_and_conquer.py (piles, phases,        *)
(*     outlier recursion, collection of partial results).                  *)
(* The partition method and compute_direct_metacells are black boxes: they *)
(* are modelled as a nondeterministic choice over every output their       *)
(* interface allows, which covers every edge weight matrix and every seed. *)
(***************************************************************************)
EXTENDS FiniteSets, Integers, Sequences, TLC

(* ------------------------------ bounds --------------------------------- *)
\* Number of nodes (cells) given to the Improver.
NodesCount == 3
\* The target community size of the run.
TargetSize == 2
\* The minimum node count, when one is configured.
MinNodes == 2
\* Number of nodes of the partitions fill() is tried on.
FillNodesCount == 6
\* Community indices are allocated up to this value (guards only); improve(),
\* pack() and fill() never get this far with NodesCount or NodesCount + 1
\* nodes, so the guards stop no run.
MaxIndex == 40

\* Number of cells given to the top-level call of the driver.
CellsCount == 4
\* The target_pile_size of the run.
TargetPileSize == 2
\* The greatest max_outliers_levels tried.
MaxLevels == 1
\* The greatest random_seed tried.
MaxSeed == 1

\* The greatest size factor tried, in units of 1 / FactorUnit.
MaxFactor == 6

\* Number of annotations the sliced data holds.
AnnotationsCount == 3

\* Largest number of cells of the data one pile is collected into, and the
\* largest metacells_count the collection is entered with.
SlotsCount == 3
MaxCount == 2

\* Python's None for the optional bounds (all real bounds are >= 0).
None == -1

Nodes == 1 .. NodesCount

VARIABLES
    \* ---- Improver fields (candidates.py, Improver.__init__) ----
    membership, node_sizes, target_comm_size, max_comm_size, min_comm_size,
    min_comm_nodes, must_complete_cover, communities, too_few, too_small,
    too_large, next_community_index,
    \* ---- position inside compute_candidate_metacells / improve / split_large
    improver_pc, penalty, did_split, position, split_did_split,
    community_of_cells,
    \* ---- history of the run (observations only, never read by the code);
    \* monolithic_masks: the member sets split_large has marked monolithic,
    \* outer_iterations: the iterations of the outer loop of improve() begun,
    \* entered: splits_count and merges_count when the last of them began
    initial_membership, partition_calls, merges_count, splits_count,
    split_mark, pack_nodes, fill_mark, monolithic_masks, outer_iterations,
    entered,
    \* ---- the call stack of compute_divide_and_conquer_metacells: one
    \* record per active invocation, holding its arguments, its position and
    \* the annotations of its data (divide_and_conquer.py)
    stack,
    \* ---- the arguments of the call of compute_candidate_metacells that is
    \* being validated (candidates.py, lines 128-154)
    arguments,
    \* ---- two executions of one phase of _compute_piled_metacells on the
    \* same data, each with the order its piles completed in
    runs,
    \* ---- a call of ut.slice: the annotations of the source data and of
    \* the slice, and the saved_data of the call (annotation.py)
    sliced,
    \* ---- a call of _collect_pile_results: its arguments and the
    \* annotations of cdata it writes (divide_and_conquer.py)
    collects

improver_vars == <<membership, node_sizes, target_comm_size, max_comm_size,
    min_comm_size, min_comm_nodes, must_complete_cover, communities, too_few,
    too_small, too_large, next_community_index, improver_pc, penalty,
    did_split, position, split_did_split, community_of_cells,
    initial_membership, partition_calls, merges_count, splits_count,
    split_mark, pack_nodes, fill_mark,
                   monolithic_masks, outer_iterations, entered>>

driver_vars == <<stack>>

candidates_vars == <<arguments>>

replay_vars == <<runs>>

slice_vars == <<sliced>>

collect_vars == <<collects>>

\* What a step of the Improver leaves alone, and what a step of the driver
\* leaves alone.
not_improver_vars == <<driver_vars, candidates_vars, replay_vars, slice_vars,
                       collect_vars>>

not_driver_vars == <<improver_vars, candidates_vars, replay_vars, slice_vars,
                     collect_vars>>

vars == <<improver_vars, driver_vars, candidates_vars, replay_vars,
         slice_vars, collect_vars>>

(* ------------------------------ helpers -------------------------------- *)
RECURSIVE SumOver(_, _)
\* np.sum(values[mask])
SumOver(values, mask) ==
    IF mask = {} THEN 0
    ELSE LET n == CHOOSE n \in mask : TRUE
         IN  values[n] + SumOver(values, mask \ {n})

RECURSIVE SeqSum(_)
\* sum of a list of integers
SeqSum(s) == IF s = <<>> THEN 0 ELSE Head(s) + SeqSum(Tail(s))

\* np.max(vector) over a non-empty function
MaxOf(f) == CHOOSE m \in {f[x] : x \in DOMAIN f} :
                \A x \in DOMAIN f : f[x] <= m

\* The outputs a partition method may return for n nodes: a community id per
\* node, the ids being exactly 0 .. k-1 for some k >= 1.  The ids are only
\* names, so they are taken in the order the communities first appear.
PartitionResults(n) ==
    {f \in [1 .. n -> 0 .. n - 1] :
        \A x \in 1 .. n : \A c \in 0 .. f[x] - 1 :
            \E y \in 1 .. x - 1 : f[y] = c}

\* Python's tuple comparison (a1, a2) < (b1, b2)
TupleLess(a1, a2, b1, b2) == a1 < b1 \/ (a1 = b1 /\ a2 < b2)

\* The elements of a set of integers in ascending order.
RECURSIVE Ascending(_)
Ascending(S) ==
    IF S = {} THEN <<>>
    ELSE LET m == CHOOSE m \in S : \A x \in S : m <= x
         IN  <<m>> \o Ascending(S \ {m})

\* The list without the entries at the given positions
\* (remove(position) applied from the last position to the first).
RemovePositions(list, positions) ==
    LET kept == Ascending((1 .. Len(list)) \ positions)
    IN  [i \in 1 .. Len(kept) |-> list[kept[i]]]

(* --------------------------- Improver.add ------------------------------ *)
\* The Community record add() builds for one community index.
NewCommunity(mem, community_index) ==
    LET mask == {n \in DOMAIN mem : mem[n] = community_index}
        total_nodes == Cardinality(mask)
        few == IF min_comm_nodes # None /\ total_nodes < min_comm_nodes
               THEN min_comm_nodes - total_nodes ELSE 0
        total_size == SumOver(node_sizes, mask)
        small == IF min_comm_size # None /\ total_size < min_comm_size
                 THEN min_comm_size - total_size ELSE 0
        large == IF max_comm_size # None /\ total_size > max_comm_size
                 THEN total_size - max_comm_size ELSE 0
    IN  [index |-> community_index, nodes |-> total_nodes,
         size |-> total_size, mask |-> mask, too_few |-> few,
         too_small |-> small, too_large |-> large, monolithic |-> FALSE]

\* The records add(count) appends, starting at index first.
AddedCommunities(mem, first, count) ==
    [i \in 1 .. count |-> NewCommunity(mem, first + i - 1)]

RECURSIVE FieldSum(_, _)
\* Sum of one penalty field over a list of communities.
FieldSum(list, field) ==
    IF list = <<>> THEN 0
    ELSE Head(list)[field] + FieldSum(Tail(list), field)

\* A rebuild whose remove() forgets to take the penalties of the removed
\* communities off the totals.
RebuildKeepingPenalties(mem, removed, count) ==
    \E relabelled \in {mem} :
    \E added \in {AddedCommunities(relabelled, next_community_index, count)} :
        /\ membership' = relabelled
        /\ communities' = RemovePositions(communities, removed) \o added
        /\ too_few' = too_few + FieldSum(added, "too_few")
        /\ too_small' = too_small + FieldSum(added, "too_small")
        /\ too_large' = too_large + FieldSum(added, "too_large")
        /\ next_community_index' = next_community_index + count

\* remove() of the given positions followed by add(count) on the relabelled
\* membership: the new list, the new totals and the new index counter.
Rebuild(mem, removed, count) ==
    \E relabelled \in {mem} :
    \E added \in {AddedCommunities(relabelled, next_community_index, count)},
       gone \in {[i \in 1 .. Cardinality(removed) |->
                    communities[Ascending(removed)[i]]]} :
        /\ membership' = relabelled
        /\ communities' = RemovePositions(communities, removed) \o added
        /\ too_few' = too_few - FieldSum(gone, "too_few")
                              + FieldSum(added, "too_few")
        /\ too_small' = too_small - FieldSum(gone, "too_small")
                                  + FieldSum(added, "too_small")
        /\ too_large' = too_large - FieldSum(gone, "too_large")
                                  + FieldSum(added, "too_large")
        /\ next_community_index' = next_community_index + count

(* ------------------- ut.bin_pack / ut.bin_fill ------------------------- *)
\* Positions of a list ordered by value, largest first (ties: first position
\* first).
RECURSIVE Descending(_, _)
Descending(values, S) ==
    IF S = {} THEN <<>>
    ELSE LET m == CHOOSE m \in S :
                    \A x \in S : values[m] > values[x]
                                 \/ (values[m] = values[x] /\ m <= x)
         IN  <<m>> \o Descending(values, S \ {m})

\* Positions of a list ordered by value, smallest first (ties: first position
\* first).
RECURSIVE AscendingBy(_, _)
AscendingBy(values, S) ==
    IF S = {} THEN <<>>
    ELSE LET m == CHOOSE m \in S :
                    \A x \in S : values[m] < values[x]
                                 \/ (values[m] = values[x] /\ m <= x)
         IN  <<m>> \o AscendingBy(values, S \ {m})

\* One placement of first-fit: the element goes into the first bin it fits
\* in without exceeding the cap, and opens a new bin when none fits.
PlaceFirstFit(e, sizes, cap, placed) ==
    LET fits == {b \in 1 .. Len(placed.bin_sizes) :
                    placed.bin_sizes[b] + sizes[e] <= cap}
        bin == IF fits = {} THEN Len(placed.bin_sizes) + 1
               ELSE CHOOSE b \in fits : \A o \in fits : b <= o
    IN  [bin_sizes |-> IF fits = {} THEN Append(placed.bin_sizes, sizes[e])
                       ELSE [placed.bin_sizes EXCEPT ![bin] = @ + sizes[e]],
         bins |-> [placed.bins EXCEPT ![e] = bin - 1]]

\* The placement of the first k elements of the order, for every k.
FirstFit(order, sizes, cap) ==
    LET placements[k \in 0 .. Len(order)] ==
            IF k = 0
            THEN [bin_sizes |-> <<>>, bins |-> [e \in DOMAIN sizes |-> 0]]
            ELSE CHOOSE next \in
                     {PlaceFirstFit(order[k], sizes, cap, placed) :
                         placed \in {placements[k - 1]}} : TRUE
    IN  placements[Len(order)].bins

\* bin_pack(element_sizes, max_bin_size): greedy largest-first into bins
\* capped at max_bin_size; the zero-based bin of each element.
BinPack(sizes, cap) ==
    FirstFit(Descending(sizes, DOMAIN sizes), sizes, cap)

\* One step of the fill: the element joins the current bin, which is closed
\* when it reaches min_bin_size.
TakeIntoBin(e, sizes, min_bin_size, taken) ==
    LET filled == taken.total + sizes[e] >= min_bin_size
    IN  [bin |-> IF filled THEN taken.bin + 1 ELSE taken.bin,
         total |-> IF filled THEN 0 ELSE taken.total + sizes[e],
         bins |-> [taken.bins EXCEPT ![e] = taken.bin]]

\* The bins after the first k elements of the order were taken, for every k.
FillBins(order, sizes, min_bin_size) ==
    LET fills[k \in 0 .. Len(order)] ==
            IF k = 0
            THEN [bin |-> 0, total |-> 0, bins |-> [e \in DOMAIN sizes |-> 0]]
            ELSE CHOOSE next \in
                     {TakeIntoBin(order[k], sizes, min_bin_size, taken) :
                         taken \in {fills[k - 1]}} : TRUE
    IN  fills[Len(order)].bins

\* bin_fill(element_sizes, min_bin_size): greedy smallest-first merge until
\* each bin reaches min_bin_size; a short last bin joins the bin before it.
BinFill(sizes, min_bin_size) ==
    LET raw == FillBins(AscendingBy(sizes, DOMAIN sizes), sizes,
                        min_bin_size)
        last == MaxOf(raw)
        last_total == SeqSum([i \in 1 .. Len(sizes) |->
                                 IF raw[i] = last THEN sizes[i] ELSE 0])
    IN  IF last > 0 /\ last_total < min_bin_size
        THEN [e \in DOMAIN sizes |->
                 IF raw[e] = last THEN last - 1 ELSE raw[e]]
        ELSE raw

\* ut.compress_indices(membership): the ids renumbered, in order, to a dense
\* zero-based range.
CompressIndices(mem) ==
    [n \in DOMAIN mem |->
        Cardinality({mem[x] : x \in DOMAIN mem} \cap (0 .. mem[n] - 1))]

(* ------------------------- Improver operations ------------------------- *)
\* A merge that selects every community.
MergeSelectedAll(community) == TRUE

\* merge_few_or_small collects the communities with a too-few or too-small
\* penalty.
MergeSelected(community) ==
    community.too_few # 0 \/ community.too_small # 0

\* A merge that relabels the merged nodes one index too far.
MergedIndexOffByOne(merged_index) ==
    merged_index + next_community_index + 1

\* The index merge_few_or_small gives to the nodes of a merged community.
MergedIndex(merged_index) == merged_index + next_community_index

\* A merge that reports an improvement only when too_few went down.
DidImproveFewOnly(after_few, after_small, before_few, before_small) ==
    after_few < before_few

\* A merge that also reports an improvement when nothing changed.
DidImproveOrEqual(after_few, after_small, before_few, before_small) ==
    ~TupleLess(before_few, before_small, after_few, after_small)

\* did_improve of merge_few_or_small.
DidImprove(after_few, after_small, before_few, before_small) ==
    TupleLess(after_few, after_small, before_few, before_small)

\* merge_few_or_small(); the loop it is called from continues at
\* pc_improved when it reports an improvement and leaves to pc_not otherwise.
MergeFewOrSmall(pc_improved, pc_not) ==
    \E positions \in {{p \in 1 .. Len(communities) :
                          MergeSelected(communities[p])}} :
    \E merged \in {Ascending(positions)} :
        IF Len(merged) < 2
        THEN /\ improver_pc' = pc_not
             /\ UNCHANGED <<membership, communities, too_few, too_small,
                            too_large, next_community_index,
                            partition_calls, merges_count>>
        ELSE \E merged_membership \in PartitionResults(Len(merged)) :
             LET count == MaxOf(merged_membership) + 1
                 mem == [n \in DOMAIN membership |->
                     LET writers == {i \in 1 .. Len(merged) :
                                 n \in communities[merged[i]].mask}
                     IN  IF writers = {} THEN membership[n]
                         ELSE MergedIndex(merged_membership[
                                 CHOOSE i \in writers :
                                     \A j \in writers : j <= i])]
             IN  /\ next_community_index + count <= MaxIndex
                 /\ Rebuild(mem, positions, count)
                 /\ partition_calls' = partition_calls + 1
                 /\ merges_count' = merges_count + 1
                 /\ improver_pc' =
                        IF DidImprove(too_few', too_small',
                                      too_few, too_small)
                        THEN pc_improved ELSE pc_not

\* The loop condition of both merge loops of improve().
MergeWanted == min_comm_size # None /\ (too_few > 0 \/ too_small > 0)

\* improve(), first loop: merge while there is a too-few or too-small penalty.
InitialMerge ==
    /\ improver_pc = "merge_loop"
    /\ MergeWanted
    /\ MergeFewOrSmall("merge_loop", "outer_init")
    /\ UNCHANGED <<node_sizes, target_comm_size, max_comm_size,
                   min_comm_size, min_comm_nodes, must_complete_cover,
                   penalty, did_split, position, split_did_split,
                   community_of_cells, initial_membership, splits_count,
                   split_mark, pack_nodes, fill_mark,
                   monolithic_masks, outer_iterations, entered>>
    /\ UNCHANGED not_improver_vars

\* improve(), first loop not entered or left by its condition.
InitialMergeDone ==
    /\ improver_pc = "merge_loop"
    /\ ~MergeWanted
    /\ improver_pc' = "outer_init"
    /\ UNCHANGED <<membership, node_sizes, target_comm_size, max_comm_size,
                   min_comm_size, min_comm_nodes, must_complete_cover,
                   communities, too_few, too_small, too_large,
                   next_community_index, penalty, did_split, position,
                   split_did_split, community_of_cells, initial_membership,
                   partition_calls, merges_count, splits_count, split_mark,
                   pack_nodes, fill_mark,
                   monolithic_masks, outer_iterations, entered>>
    /\ UNCHANGED not_improver_vars

\* improve(): penalty = (too_few, too_small + too_large + 1)
OuterInit ==
    /\ improver_pc = "outer_init"
    /\ penalty' = <<too_few, too_small + too_large + 1>>
    /\ improver_pc' = "outer_test"
    /\ UNCHANGED <<membership, node_sizes, target_comm_size, max_comm_size,
                   min_comm_size, min_comm_nodes, must_complete_cover,
                   communities, too_few, too_small, too_large,
                   next_community_index, did_split, position,
                   split_did_split, community_of_cells, initial_membership,
                   partition_calls, merges_count, splits_count, split_mark,
                   pack_nodes, fill_mark,
                   monolithic_masks, outer_iterations, entered>>
    /\ UNCHANGED not_improver_vars

\* The condition of the outer loop of improve().
PenaltyDecreased ==
    TupleLess(too_few, too_small + too_large, penalty[1], penalty[2])

\* improve(): one more outer iteration starts.
OuterEnter ==
    /\ improver_pc = "outer_test"
    /\ PenaltyDecreased
    /\ penalty' = <<too_few, too_small + too_large>>
    /\ outer_iterations' = outer_iterations + 1
    /\ entered' = <<splits_count, merges_count>>
    /\ IF max_comm_size # None
       THEN did_split' = FALSE /\ improver_pc' = "split_loop"
       ELSE UNCHANGED did_split /\ improver_pc' = "outer_test"
    /\ UNCHANGED <<membership, node_sizes, target_comm_size, max_comm_size,
                   min_comm_size, min_comm_nodes, must_complete_cover,
                   communities, too_few, too_small, too_large,
                   next_community_index, position, split_did_split,
                   community_of_cells, initial_membership, partition_calls,
                   merges_count, splits_count, split_mark, pack_nodes,
                   fill_mark, monolithic_masks>>
    /\ UNCHANGED not_improver_vars

\* improve(): the outer loop ends; compute_candidate_metacells goes on to
\* pack() and fill().
OuterExit ==
    /\ improver_pc = "outer_test"
    /\ ~PenaltyDecreased
    /\ improver_pc' = "pack"
    /\ UNCHANGED <<membership, node_sizes, target_comm_size, max_comm_size,
                   min_comm_size, min_comm_nodes, must_complete_cover,
                   communities, too_few, too_small, too_large,
                   next_community_index, penalty, did_split, position,
                   split_did_split, community_of_cells, initial_membership,
                   partition_calls, merges_count, splits_count, split_mark,
                   pack_nodes, fill_mark,
                   monolithic_masks, outer_iterations, entered>>
    /\ UNCHANGED not_improver_vars

(* ------------------------------ split_large ---------------------------- *)
\* A split_large that passes over the communities one unit too large.
SplitCandidateSevere(community) ==
    community.too_large > 1 /\ ~community.monolithic

\* split_large tries to split a community that is too large and was not
\* found monolithic.
SplitCandidate(community) ==
    community.too_large # 0 /\ ~community.monolithic

\* A split that forgets to flag the community it could not split.
MarkNothing(community) == community

\* The record of a community the partition method returned as one piece.
MarkMonolithic(community) == [community EXCEPT !.monolithic = TRUE]

\* improve(): while self.too_large > 0, call split_large().
SplitLoopCall ==
    /\ improver_pc = "split_loop"
    /\ too_large > 0
    /\ improver_pc' = "split_large"
    /\ position' = 1
    /\ split_did_split' = FALSE
    /\ UNCHANGED <<membership, node_sizes, target_comm_size, max_comm_size,
                   min_comm_size, min_comm_nodes, must_complete_cover,
                   communities, too_few, too_small, too_large,
                   next_community_index, penalty, did_split,
                   community_of_cells, initial_membership, partition_calls,
                   merges_count, splits_count, split_mark, pack_nodes,
                   fill_mark,
                   monolithic_masks, outer_iterations, entered>>
    /\ UNCHANGED not_improver_vars

\* improve(): the split loop ends because nothing is too large.
SplitLoopDone ==
    /\ improver_pc = "split_loop"
    /\ too_large <= 0
    /\ improver_pc' = "remerge"
    /\ split_mark' = next_community_index
    /\ UNCHANGED <<membership, node_sizes, target_comm_size, max_comm_size,
                   min_comm_size, min_comm_nodes, must_complete_cover,
                   communities, too_few, too_small, too_large,
                   next_community_index, penalty, did_split, position,
                   split_did_split, community_of_cells, initial_membership,
                   partition_calls, merges_count, splits_count, pack_nodes,
                   fill_mark,
                   monolithic_masks, outer_iterations, entered>>
    /\ UNCHANGED not_improver_vars

\* split_large(): the community at the position is skipped.
SplitSkip ==
    /\ improver_pc = "split_large"
    /\ position <= Len(communities)
    /\ ~SplitCandidate(communities[position])
    /\ position' = position + 1
    /\ UNCHANGED <<membership, node_sizes, target_comm_size, max_comm_size,
                   min_comm_size, min_comm_nodes, must_complete_cover,
                   communities, too_few, too_small, too_large,
                   next_community_index, improver_pc, penalty, did_split,
                   split_did_split, community_of_cells, initial_membership,
                   partition_calls, merges_count, splits_count, split_mark,
                   pack_nodes, fill_mark,
                   monolithic_masks, outer_iterations, entered>>
    /\ UNCHANGED not_improver_vars

\* split_large(): the partition method is run on the community at the
\* position; one piece marks it monolithic, more pieces replace it.
SplitTry ==
    /\ improver_pc = "split_large"
    /\ position <= Len(communities)
    /\ SplitCandidate(communities[position])
    /\ LET split_community == communities[position]
           members == Ascending(split_community.mask)
       IN  \E split_nodes_membership \in PartitionResults(Len(members)) :
           LET count == MaxOf(split_nodes_membership) + 1
               mem == [n \in DOMAIN membership |->
                   IF n \in split_community.mask
                   THEN split_nodes_membership[
                            CHOOSE i \in 1 .. Len(members) : members[i] = n]
                        + next_community_index
                   ELSE membership[n]]
           IN  /\ partition_calls' = partition_calls + 1
               /\ IF count = 1
                  THEN /\ communities' =
                              [communities EXCEPT ![position] =
                                  MarkMonolithic(split_community)]
                       /\ position' = position + 1
                       /\ monolithic_masks' =
                              monolithic_masks \cup {split_community.mask}
                       /\ UNCHANGED <<membership, too_few, too_small,
                                      too_large, next_community_index,
                                      split_did_split, splits_count>>
                  ELSE /\ next_community_index + count <= MaxIndex
                       /\ split_did_split' = TRUE
                       /\ splits_count' = splits_count + 1
                       /\ Rebuild(mem, {position}, count)
                       /\ UNCHANGED <<position, monolithic_masks>>
    /\ UNCHANGED <<node_sizes, target_comm_size, max_comm_size,
                   min_comm_size, min_comm_nodes, must_complete_cover,
                   improver_pc, penalty, did_split, community_of_cells,
                   initial_membership, merges_count, split_mark, pack_nodes,
                   fill_mark, outer_iterations, entered>>
    /\ UNCHANGED not_improver_vars

\* split_large() returns did_split; improve() breaks out of the split loop
\* when it is false and records a split otherwise.
SplitReturn ==
    /\ improver_pc = "split_large"
    /\ position > Len(communities)
    /\ IF split_did_split
       THEN did_split' = TRUE /\ improver_pc' = "split_loop"
       ELSE UNCHANGED did_split /\ improver_pc' = "remerge"
    /\ split_mark' = next_community_index
    /\ UNCHANGED <<membership, node_sizes, target_comm_size, max_comm_size,
                   min_comm_size, min_comm_nodes, must_complete_cover,
                   communities, too_few, too_small, too_large,
                   next_community_index, penalty, position, split_did_split,
                   community_of_cells, initial_membership, partition_calls,
                   merges_count, splits_count, pack_nodes, fill_mark,
                   monolithic_masks, outer_iterations, entered>>
    /\ UNCHANGED not_improver_vars

\* An improve() that merges again whether or not it split.
RemergeAlways ==
    /\ improver_pc = "remerge"
    /\ MergeWanted
    /\ MergeFewOrSmall("remerge", "outer_test")
    /\ UNCHANGED <<node_sizes, target_comm_size, max_comm_size,
                   min_comm_size, min_comm_nodes, must_complete_cover,
                   penalty, did_split, position, split_did_split,
                   community_of_cells, initial_membership, splits_count,
                   split_mark, pack_nodes, fill_mark,
                   monolithic_masks, outer_iterations, entered>>
    /\ UNCHANGED not_improver_vars

\* improve(): after a split, merge again while there is a too-few or
\* too-small penalty.
Remerge ==
    /\ improver_pc = "remerge"
    /\ did_split
    /\ MergeWanted
    /\ MergeFewOrSmall("remerge", "outer_test")
    /\ UNCHANGED <<node_sizes, target_comm_size, max_comm_size,
                   min_comm_size, min_comm_nodes, must_complete_cover,
                   penalty, did_split, position, split_did_split,
                   community_of_cells, initial_membership, splits_count,
                   split_mark, pack_nodes, fill_mark,
                   monolithic_masks, outer_iterations, entered>>
    /\ UNCHANGED not_improver_vars

\* improve(): no merge after the split loop; back to the outer loop test.
RemergeDone ==
    /\ improver_pc = "remerge"
    /\ ~(did_split /\ MergeWanted)
    /\ improver_pc' = "outer_test"
    /\ UNCHANGED <<membership, node_sizes, target_comm_size, max_comm_size,
                   min_comm_size, min_comm_nodes, must_complete_cover,
                   communities, too_few, too_small, too_large,
                   next_community_index, penalty, did_split, position,
                   split_did_split, community_of_cells, initial_membership,
                   partition_calls, merges_count, splits_count, split_mark,
                   pack_nodes, fill_mark,
                   monolithic_masks, outer_iterations, entered>>
    /\ UNCHANGED not_improver_vars

(* ------------------------------ pack and fill -------------------------- *)
\* A pack that overlooks the too-small communities.
PackSelectedFewOnly(community) == community.too_few # 0

\* A pack that takes every community.
PackSelectedAll(community) == TRUE

\* pack() takes the communities with a too-small or too-few penalty.
PackSelected(community) ==
    ~(community.too_small = 0 /\ community.too_few = 0)

\* A fill that overlooks the communities one node short.
FillSelectedSevere(community) == community.too_few > 1

\* fill() takes the communities with a too-few penalty.
FillSelected(community) == community.too_few # 0

\* A relabelling that counts the new indices from zero.
RegroupedFromZero(taken, bins) ==
    [n \in DOMAIN membership |->
        LET hits == {i \in 1 .. Len(taken) :
                        membership[n] = communities[taken[i]].index}
        IN  IF hits = {} THEN membership[n]
            ELSE bins[CHOOSE i \in hits : \A j \in hits : i <= j]]

\* The membership after the communities at the given positions (in list
\* order) are relabelled into the bins chosen for them.
Regrouped(taken, bins) ==
    [n \in DOMAIN membership |->
        LET hits == {i \in 1 .. Len(taken) :
                        membership[n] = communities[taken[i]].index}
        IN  IF hits = {} THEN membership[n]
            ELSE next_community_index
                 + bins[CHOOSE i \in hits : \A j \in hits : i <= j]]

\* compute_candidate_metacells: pack() when a minimum size is configured.
Pack ==
    /\ improver_pc = "pack"
    /\ min_comm_size # None
    /\ \E positions \in {{p \in 1 .. Len(communities) :
                             PackSelected(communities[p])}} :
       \E taken \in {Ascending(positions)} :
       \E sizes \in {[i \in 1 .. Len(taken) |->
                         communities[taken[i]].size]} :
           IF taken = <<>>
           THEN UNCHANGED <<membership, communities, too_few, too_small,
                            too_large, next_community_index, pack_nodes>>
           ELSE \E bins \in {BinPack(sizes, target_comm_size)} :
                LET bins_count == MaxOf(bins) + 1
                IN  /\ next_community_index + bins_count <= MaxIndex
                    /\ Rebuild(Regrouped(taken, bins), positions, bins_count)
                    /\ pack_nodes' = UNION {communities[p].mask :
                                               p \in positions}
    /\ improver_pc' = "fill"
    /\ UNCHANGED <<node_sizes, target_comm_size, max_comm_size,
                   min_comm_size, min_comm_nodes, must_complete_cover,
                   penalty, did_split, position, split_did_split,
                   community_of_cells, initial_membership, partition_calls,
                   merges_count, splits_count, split_mark, fill_mark,
                   monolithic_masks, outer_iterations, entered>>
    /\ UNCHANGED not_improver_vars

\* compute_candidate_metacells: no pack() without a minimum size.
PackSkipped ==
    /\ improver_pc = "pack"
    /\ min_comm_size = None
    /\ improver_pc' = "fill"
    /\ UNCHANGED <<membership, node_sizes, target_comm_size, max_comm_size,
                   min_comm_size, min_comm_nodes, must_complete_cover,
                   communities, too_few, too_small, too_large,
                   next_community_index, penalty, did_split, position,
                   split_did_split, community_of_cells, initial_membership,
                   partition_calls, merges_count, splits_count, split_mark,
                   pack_nodes, fill_mark,
                   monolithic_masks, outer_iterations, entered>>
    /\ UNCHANGED not_improver_vars

RECURSIVE SortedCandidates(_)
\* sorted() of fill()'s (nodes, size, position, index) candidate tuples, as
\* the list of their positions.
SortedCandidates(S) ==
    IF S = {} THEN <<>>
    ELSE LET m == CHOOSE m \in S : \A x \in S :
                 \/ communities[m].nodes < communities[x].nodes
                 \/ /\ communities[m].nodes = communities[x].nodes
                    /\ \/ communities[m].size < communities[x].size
                       \/ /\ communities[m].size = communities[x].size
                          /\ m <= x
         IN  <<m>> \o SortedCandidates(S \ {m})

\* A fill that borrows every candidate.
BorrowedCountAll(candidates, total_nodes) == Len(candidates)

\* How many of the sorted candidates fill() borrows: it stops at the first
\* one that brings the total to min_comm_nodes, else takes them all.
BorrowedCount(candidates, total_nodes) ==
    LET reached == {j \in 1 .. Len(candidates) :
            total_nodes
            + SeqSum([i \in 1 .. j |-> communities[candidates[i]].nodes])
                >= min_comm_nodes}
    IN  IF reached = {} THEN Len(candidates)
        ELSE CHOOSE j \in reached : \A o \in reached : j <= o

\* compute_candidate_metacells: fill() when a minimum node count is
\* configured.
Fill ==
    /\ improver_pc = "fill"
    /\ min_comm_nodes # None
    /\ fill_mark' = next_community_index
    /\ \E few_positions \in {{p \in 1 .. Len(communities) :
                                 FillSelected(communities[p])}} :
       \E few \in {Ascending(few_positions)} :
       \E total_nodes \in {SeqSum([i \in 1 .. Len(few) |->
                                      communities[few[i]].nodes])} :
       \E candidates \in {SortedCandidates(
               {p \in (1 .. Len(communities)) \ few_positions :
                   communities[p].too_few = 0})} :
       \E borrowed \in
               {IF must_complete_cover /\ total_nodes < min_comm_nodes
                THEN SubSeq(candidates, 1,
                            BorrowedCount(candidates, total_nodes))
                ELSE <<>>} :
       \E taken \in {few \o borrowed} :
       \E nodes \in {[i \in 1 .. Len(taken) |->
                         communities[taken[i]].nodes]} :
           IF few = <<>>
           THEN UNCHANGED <<membership, communities, too_few, too_small,
                            too_large, next_community_index>>
           ELSE \E bins \in {BinFill(nodes, min_comm_nodes)} :
                LET bins_count == MaxOf(bins) + 1
                IN  /\ next_community_index + bins_count <= MaxIndex
                    /\ Rebuild(Regrouped(taken, bins),
                               {taken[i] : i \in 1 .. Len(taken)},
                               bins_count)
    /\ improver_pc' = "compress"
    /\ UNCHANGED <<node_sizes, target_comm_size, max_comm_size,
                   min_comm_size, min_comm_nodes, must_complete_cover,
                   penalty, did_split, position, split_did_split,
                   community_of_cells, initial_membership, partition_calls,
                   merges_count, splits_count, split_mark, pack_nodes,
                   monolithic_masks, outer_iterations, entered>>
    /\ UNCHANGED not_improver_vars

\* compute_candidate_metacells: no fill() without a minimum node count.
FillSkipped ==
    /\ improver_pc = "fill"
    /\ min_comm_nodes = None
    /\ improver_pc' = "compress"
    /\ UNCHANGED <<membership, node_sizes, target_comm_size, max_comm_size,
                   min_comm_size, min_comm_nodes, must_complete_cover,
                   communities, too_few, too_small, too_large,
                   next_community_index, penalty, did_split, position,
                   split_did_split, community_of_cells, initial_membership,
                   partition_calls, merges_count, splits_count, split_mark,
                   pack_nodes, fill_mark,
                   monolithic_masks, outer_iterations, entered>>
    /\ UNCHANGED not_improver_vars

\* compute_candidate_metacells: community_of_cells =
\* ut.compress_indices(improver.membership)
Compress ==
    /\ improver_pc = "compress"
    /\ community_of_cells' = CompressIndices(membership)
    /\ improver_pc' = "done"
    /\ UNCHANGED <<membership, node_sizes, target_comm_size, max_comm_size,
                   min_comm_size, min_comm_nodes, must_complete_cover,
                   communities, too_few, too_small, too_large,
                   next_community_index, penalty, did_split, position,
                   split_did_split, initial_membership, partition_calls,
                   merges_count, splits_count, split_mark, pack_nodes,
                   fill_mark,
                   monolithic_masks, outer_iterations, entered>>
    /\ UNCHANGED not_improver_vars

(* --------------------- construction and specification ------------------ *)
\* The bounds tried.  compute_candidate_metacells derives max = ceil(target
\* * split factor) - 1 or None and min = floor(target * merge factor) + 1 or
\* None, asserts min <= max when both are set, and builds an Improver only
\* when one of them is set; min_metacell_cells is passed on as it is.
Configurations ==
    LET t == TargetSize
        k == MinNodes
        Cfg(max, min, nodes, cover) ==
            [max_size |-> max, min_size |-> min, min_nodes |-> nodes,
             cover |-> cover]
    IN  {Cfg(None, t, None, FALSE), Cfg(None, t + 1, None, FALSE),
         Cfg(t + 1, None, None, FALSE), Cfg(t + 1, t, None, FALSE),
         Cfg(None, t, k, FALSE), Cfg(None, t, k, TRUE),
         Cfg(t + 1, None, k, TRUE), Cfg(t + 1, t, k, TRUE)}

\* The node size vectors tried: the first h nodes are as large as the target
\* and the others are unit nodes (all unit when node_sizes is None).
NodeSizes ==
    {[n \in Nodes |-> IF n <= h THEN TargetSize ELSE 1] :
        h \in 0 .. NodesCount}

\* The inputs tried: every configuration with every size vector, except that
\* the configuration with all three bounds set is tried with at most one
\* large node.
ImproverInputs ==
    {in \in Configurations \X NodeSizes :
        (in[1].max_size # None /\ in[1].min_size # None
         /\ in[1].min_nodes # None) => in[2][2] = 1}

\* Improver.__init__ on the membership returned by the first partition call,
\* for one of the given inputs.
Construct(inputs) ==
    /\ membership \in PartitionResults(NodesCount)
    /\ target_comm_size = TargetSize
    /\ \E in \in inputs :
           /\ node_sizes = in[2]
           /\ max_comm_size = in[1].max_size
           /\ min_comm_size = in[1].min_size
           /\ min_comm_nodes = in[1].min_nodes
           /\ must_complete_cover = in[1].cover
    /\ next_community_index = MaxOf(membership) + 1
    /\ communities = AddedCommunities(membership, 0, MaxOf(membership) + 1)
    /\ too_few = FieldSum(communities, "too_few")
    /\ too_small = FieldSum(communities, "too_small")
    /\ too_large = FieldSum(communities, "too_large")
    /\ improver_pc = "merge_loop"
    /\ penalty = <<0, 0>>
    /\ did_split = FALSE
    /\ position = 1
    /\ split_did_split = FALSE
    /\ community_of_cells = membership
    /\ initial_membership = membership
    /\ partition_calls = 0
    /\ merges_count = 0
    /\ splits_count = 0
    /\ split_mark = 0
    /\ pack_nodes = {}
    /\ fill_mark = 0
    /\ monolithic_masks = {}
    /\ outer_iterations = 0
    /\ entered = <<0, 0>>
    /\ stack = <<>>
    /\ arguments = <<>>
    /\ runs = <<>>
    /\ sliced = <<>>
    /\ collects = <<>>

ImproverNext ==
    \/ InitialMerge \/ InitialMergeDone \/ OuterInit \/ OuterEnter
    \/ OuterExit \/ SplitLoopCall \/ SplitLoopDone \/ SplitSkip \/ SplitTry
    \/ SplitReturn \/ Remerge \/ RemergeDone \/ Pack \/ PackSkipped
    \/ Fill \/ FillSkipped \/ Compress

ImproverInit == Construct(ImproverInputs)

SpecImprover == ImproverInit /\ [][ImproverNext]_vars

\* The node size vectors that allow a cell larger than any allowed
\* community: the first node is a unit node or twice the target, the next h
\* nodes are as large as the target and the others are unit nodes.
LargeNodeSizes ==
    {[n \in Nodes |-> IF n = 1 THEN first
                      ELSE IF n <= h + 1 THEN TargetSize ELSE 1] :
        first \in {1, 2 * TargetSize}, h \in 0 .. NodesCount - 1}

\* The same refinement on the inputs with a large cell.
LargeNodeInit == Construct(Configurations \X LargeNodeSizes)

SpecLargeNode == LargeNodeInit /\ [][ImproverNext]_vars

\* The node size vectors fill() is tried with: the first h nodes are as
\* large as the target and the others are unit nodes.
FillNodeSizes ==
    {[n \in 1 .. FillNodesCount |-> IF n <= h THEN TargetSize ELSE 1] :
        h \in 0 .. 2}

\* The Improver when compute_candidate_metacells calls fill(), for a larger
\* graph with only max_comm_size and min_comm_nodes configured, in the run
\* where the partition method returned every too-large community of the
\* first partition as one piece: improve() has flagged them monolithic in
\* its only iteration and split nothing, and there is no pack().
FillEntry(nodes_count, sizes) ==
    /\ membership \in PartitionResults(nodes_count)
    /\ target_comm_size = TargetSize
    /\ node_sizes \in sizes
    /\ max_comm_size = TargetSize + 1
    /\ min_comm_size = None
    /\ min_comm_nodes = MinNodes
    /\ must_complete_cover \in BOOLEAN
    /\ next_community_index = MaxOf(membership) + 1
    /\ communities =
           [i \in 1 .. MaxOf(membership) + 1 |->
               LET community == NewCommunity(membership, i - 1)
               IN  IF community.too_large # 0
                   THEN MarkMonolithic(community) ELSE community]
    /\ too_few = FieldSum(communities, "too_few")
    /\ too_small = FieldSum(communities, "too_small")
    /\ too_large = FieldSum(communities, "too_large")
    /\ improver_pc = "fill"
    /\ penalty = <<too_few, too_small + too_large>>
    /\ did_split = FALSE
    /\ position = IF too_large > 0 THEN Len(communities) + 1 ELSE 1
    /\ split_did_split = FALSE
    /\ community_of_cells = membership
    /\ initial_membership = membership
    /\ monolithic_masks = {communities[i].mask :
                               i \in {j \in 1 .. Len(communities) :
                                          communities[j].monolithic}}
    /\ partition_calls = Cardinality(monolithic_masks)
    /\ merges_count = 0
    /\ splits_count = 0
    /\ split_mark = next_community_index
    /\ pack_nodes = {}
    /\ fill_mark = 0
    /\ outer_iterations = 1
    /\ entered = <<0, 0>>
    /\ stack = <<>>
    /\ arguments = <<>>
    /\ runs = <<>>
    /\ sliced = <<>>
    /\ collects = <<>>

FillInit == FillEntry(FillNodesCount, FillNodeSizes)

\* fill() and the compression of its result.
FillNext == Fill \/ Compress

SpecFill == FillInit /\ [][FillNext]_vars

\* The steps of improve().
ImproveStep ==
    \/ InitialMerge \/ InitialMergeDone \/ OuterInit \/ OuterEnter
    \/ OuterExit \/ SplitLoopCall \/ SplitLoopDone \/ SplitSkip \/ SplitTry
    \/ SplitReturn \/ Remerge \/ RemergeDone

\* improve() is a sequential loop: it always takes its next step.
SpecImproverFair == SpecImprover /\ WF_vars(ImproveStep)

(* ------------------------------ the driver ----------------------------- *)
\* Optional[int] of max_outliers_levels: None is the empty tuple, k is <<k>>.
NoLevels == <<>>

\* np.full(n, value)
Full(n, value) == [c \in 1 .. n |-> value]

\* The 'metacell' annotations compute_direct_metacells may leave on n_obs
\* cells: -1 for an outlier, else a metacell index, the indices used being
\* exactly 0 .. k-1; with must_complete_cover no cell is left an outlier.
ComputeDirectMetacells(n_obs, cover) ==
    {metacell \in [1 .. n_obs -> -1 .. n_obs - 1] :
        /\ \A c \in 1 .. n_obs : \A id \in 0 .. metacell[c] - 1 :
               \E d \in 1 .. n_obs : metacell[d] = id
        /\ cover => \A c \in 1 .. n_obs : metacell[c] >= 0}

\* ut.random_piles(n_obs, target_pile_size, random_seed): the cells, in the
\* order the seed shuffles them into, are cut into ceil(n_obs /
\* target_pile_size) piles of equal size (the last one may be shorter).
RandomPiles(n_obs, target_pile_size, random_seed) ==
    LET piles_count == (n_obs + target_pile_size - 1) \div target_pile_size
        pile_size == (n_obs + piles_count - 1) \div piles_count
    IN  [c \in 1 .. n_obs |-> ((c - 1 + random_seed) % n_obs) \div pile_size]

\* ut.group_piles(group_of_elements, pile_of_groups): the pile of the group
\* of each element; the group is used as an index into pile_of_groups, so a
\* negative group counts from the end.
GroupPiles(group_of_elements, pile_of_groups) ==
    [e \in 1 .. Len(group_of_elements) |->
        pile_of_groups[IF group_of_elements[e] >= 0
                       THEN group_of_elements[e] + 1
                       ELSE Len(pile_of_groups) + group_of_elements[e] + 1]]

\* A base case that never asks for a complete cover.
BaseCaseCoverDropped(cover) == FALSE

\* The must_complete_cover the base case gives compute_direct_metacells.
BaseCaseCover(cover) == cover

\* Piles that are given the must_complete_cover of their phase.
PileCoverOfPhase(cover) == cover

\* The must_complete_cover _compute_pile_metacells gives
\* compute_direct_metacells for a pile.
PileCover(cover) == FALSE

\* Piles that are given a seed of their own, the reserved seed 0 excepted.
PileSeedOfIndex(random_seed, pile_index) ==
    IF random_seed # 0 THEN random_seed + pile_index ELSE 0

\* The random_seed _compute_pile_metacells gives compute_direct_metacells for
\* a pile.
PileSeed(random_seed, pile_index) == random_seed

\* A preliminary phase that is given the must_complete_cover of the caller.
PhaseCoverOfCaller(adata) == adata.must_complete_cover

\* The must_complete_cover argument of _compute_piled_metacells.
PhaseCover(adata) ==
    IF adata.phase = "preliminary" THEN TRUE ELSE adata.must_complete_cover

\* The max_outliers_levels argument of _compute_piled_metacells.
PhaseLevels(adata) ==
    IF adata.phase = "preliminary" THEN NoLevels
    ELSE adata.max_outliers_levels

\* History of an invocation (observations only): the number of calls of
\* compute_direct_metacells made for each of its phases, the calls made inside
\* the outlier recursions of a phase included; the one call of the base case
\* is a call for the final metacells.
NoDirectCalls == [preliminary |-> 0, final |-> 0]

\* The data of one invocation of compute_divide_and_conquer_metacells when
\* it is entered: its arguments and no annotation yet.
Invocation(kind, n_obs, cover, levels, intermediate, cell_index, target_pile_size, pile_min_split_size, random_seed) ==
    [kind |-> kind, n_obs |-> n_obs, must_complete_cover |-> cover,
     max_outliers_levels |-> levels, intermediate |-> intermediate,
     complete_cell_index |-> cell_index,
     target_pile_size |-> target_pile_size,
     pile_min_split_size |-> pile_min_split_size,
     random_seed |-> random_seed, pc |-> "start", error |-> "",
     phase |-> "", pile_of_cells |-> <<>>, piles_count |-> 0,
     results_of_piles |-> <<>>, finished |-> <<>>, metacells_count |-> 0,
     outlier_of_cells |-> {}, pre_metacell |-> <<>>, metacell |-> <<>>,
     pre_directs |-> 0, final_directs |-> 0,
     pre_cell_directs |-> <<>>, final_cell_directs |-> <<>>,
     pre_pile |-> <<>>, pile |-> <<>>,
     direct_calls |-> NoDirectCalls, direct_inputs |-> {}]

\* The invocation that is running: the last one entered.
Running == stack[Len(stack)]

\* The stack with the running invocation replaced.
Continued(adata) == [stack EXCEPT ![Len(stack)] = adata]

\* The invocation after it raised: nothing catches the exception, the whole
\* run is aborted.
Raised(adata, error) == [adata EXCEPT !.pc = "failed", !.error = error]

\* _prefix('metacell'): the per-cell vector a phase writes.
MetacellOfPhase(adata) ==
    IF adata.phase = "final" THEN adata.metacell ELSE adata.pre_metacell

\* A collection that sets the directs counter instead of adding to it.
WithPhaseResultsOverwritten(adata, metacell_of_cells, directs) ==
    IF adata.phase = "final"
    THEN [adata EXCEPT !.metacell = metacell_of_cells,
                       !.final_directs = directs]
    ELSE [adata EXCEPT !.pre_metacell = metacell_of_cells,
                       !.pre_directs = directs]

\* The invocation with the vector of its phase replaced and the directs
\* counter of its phase, _prefix('directs', 'final'), increased.
WithPhaseResults(adata, metacell_of_cells, directs) ==
    IF adata.phase = "final"
    THEN [adata EXCEPT !.metacell = metacell_of_cells,
                       !.final_directs = @ + directs]
    ELSE [adata EXCEPT !.pre_metacell = metacell_of_cells,
                       !.pre_directs = @ + directs]

\* A shift of every entry, the negative ones too.
ShiftedAll(metacells, metacells_count) ==
    [i \in 1 .. Len(metacells) |-> metacells[i] + metacells_count]

\* pile_metacells[pile_metacells >= 0] += metacells_count
Shifted(metacells, metacells_count) ==
    [i \in 1 .. Len(metacells) |->
        IF metacells[i] >= 0 THEN metacells[i] + metacells_count
        ELSE metacells[i]]

\* An assignment that also resets the entries that are not indexed.
ScatteredOverAll(metacell_of_cells, cell_indices, metacells) ==
    [c \in 1 .. Len(metacell_of_cells) |->
        IF \E i \in 1 .. Len(cell_indices) : cell_indices[i] = c
        THEN metacells[CHOOSE i \in 1 .. Len(cell_indices) :
                           cell_indices[i] = c]
        ELSE -1]

\* metacell_of_cells[cell_indices] = metacells
Scattered(metacell_of_cells, cell_indices, metacells) ==
    [c \in 1 .. Len(metacell_of_cells) |->
        IF \E i \in 1 .. Len(cell_indices) : cell_indices[i] = c
        THEN metacells[CHOOSE i \in 1 .. Len(cell_indices) :
                           cell_indices[i] = c]
        ELSE metacell_of_cells[c]]

\* _collect_pile_results: the vector after the pile's metacells are written
\* and the count it returns, np.max(pile_metacells) + 1.
CollectPileResults(metacell_of_cells, cells_frame, metacells_count) ==
    LET pile_metacells == Shifted(cells_frame.metacell, metacells_count)
    IN  [metacell_of_cells |->
             Scattered(metacell_of_cells, cells_frame.complete_cell_index,
                       pile_metacells),
         metacells_count |-> MaxOf(pile_metacells) + 1]

\* The metacells_count of the loop of _collect_piles_results after a call of
\* _collect_pile_results: the call's return value is not assigned.
LoopMetacellsCount(metacells_count, returned_count) == metacells_count

\* _collect_piles_results: the pile results are collected in pile index
\* order; the state of the loop after k piles, for every k.
CollectPilesResults(metacell_of_cells, results_of_piles) ==
    LET collected[k \in 0 .. Len(results_of_piles)] ==
            IF k = 0
            THEN [metacell_of_cells |-> metacell_of_cells,
                  metacells_count |-> 0]
            ELSE CHOOSE next \in
                {LET pile == CollectPileResults(loop.metacell_of_cells,
                                 results_of_piles[k], loop.metacells_count)
                 IN  [metacell_of_cells |-> pile.metacell_of_cells,
                      metacells_count |->
                          LoopMetacellsCount(loop.metacells_count,
                                             pile.metacells_count)] :
                 loop \in {collected[k - 1]}} : TRUE
    IN  collected[Len(results_of_piles)]

\* _compute_piled_metacells, entry: piles_count = np.max(pile_of_cells) + 1
\* and assert piles_count > 1; then the piles are handed to parallel_map.
PhaseEntered(adata, phase, pile_of_cells) ==
    LET piles_count == MaxOf(pile_of_cells) + 1
        cdata == [adata EXCEPT !.phase = phase,
                               !.pile_of_cells = pile_of_cells,
                               !.piles_count = piles_count,
                               !.outlier_of_cells = {},
                               !.finished = <<>>,
                               !.results_of_piles =
                                   [p \in 1 .. piles_count |->
                                       [done |-> FALSE]]]
    IN  IF piles_count > 1 THEN [cdata EXCEPT !.pc = "piles"]
        ELSE Raised(cdata, "assert piles_count > 1")

\* _compute_piled_metacells returns: after the preliminary phase the caller
\* goes on to the metacell piles, after the final phase it returns itself.
PhaseReturned(cdata) ==
    [cdata EXCEPT !.pc = IF cdata.phase = "preliminary"
                         THEN "metacell_piles" ELSE "returned"]

\* A patch that leaves the counters as they are.
PatchDirectMetacellsAnnotationsUncounted(adata) ==
    IF ~adata.intermediate
    THEN adata
    ELSE [adata EXCEPT !.pre_cell_directs = Full(adata.n_obs, 0),
                       !.final_cell_directs = Full(adata.n_obs, 1),
                       !.pre_pile = Full(adata.n_obs, -1),
                       !.pile = Full(adata.n_obs, 0),
                       !.pre_metacell = Full(adata.n_obs, -1)]

\* A patch that also renumbers the metacells from 1.
PatchDirectMetacellsAnnotationsRenumbering(adata) ==
    [adata EXCEPT !.pre_directs = 0,
                  !.final_directs = 1,
                  !.pre_cell_directs = IF adata.intermediate
                                       THEN Full(adata.n_obs, 0) ELSE @,
                  !.final_cell_directs = IF adata.intermediate
                                         THEN Full(adata.n_obs, 1) ELSE @,
                  !.pre_pile = IF adata.intermediate
                               THEN Full(adata.n_obs, -1) ELSE @,
                  !.pile = IF adata.intermediate
                           THEN Full(adata.n_obs, 0) ELSE @,
                  !.pre_metacell = IF adata.intermediate
                                   THEN Full(adata.n_obs, -1) ELSE @,
                  !.metacell = Shifted(@, 1)]

\* _patch_direct_metacells_annotations: the annotations a divide-and-conquer
\* run would have left are added to the direct results (pre_directs = 0,
\* final_directs = 1 and, with intermediate, pre_metacell = -1); 'metacell'
\* is left as compute_direct_metacells wrote it.
PatchDirectMetacellsAnnotations(adata) ==
    IF ~adata.intermediate
    THEN [adata EXCEPT !.pre_directs = 0, !.final_directs = 1]
    ELSE [adata EXCEPT !.pre_directs = 0,
                       !.final_directs = 1,
                       !.pre_cell_directs = Full(adata.n_obs, 0),
                       !.final_cell_directs = Full(adata.n_obs, 1),
                       !.pre_pile = Full(adata.n_obs, -1),
                       !.pile = Full(adata.n_obs, 0),
                       !.pre_metacell = Full(adata.n_obs, -1)]

\* The invocation after it called compute_direct_metacells, for a phase, on
\* n_obs cells and with this must_complete_cover.
Invoked(adata, phase, n_obs, cover) ==
    [adata EXCEPT !.direct_calls[phase] = @ + 1,
                  !.direct_inputs = @ \cup {[phase |-> phase,
                                             n_obs |-> n_obs,
                                             must_complete_cover |-> cover]}]

\* compute_divide_and_conquer_metacells, base case: fewer cells than
\* target_pile_size * pile_min_split_size_factor; one direct computation on
\* all the cells, then _patch_direct_metacells_annotations, then return.
\* What compute_direct_metacells does when it is given no cell at all is not
\* fixed by this repository: it returns (no cell, so no annotation) or raises.
DirectCase ==
    /\ stack # <<>>
    /\ Running.pc = "start"
    /\ Running.n_obs < Running.pile_min_split_size
    /\ \E adata \in {Invoked(Running, "final", Running.n_obs,
                              BaseCaseCover(Running.must_complete_cover))} :
           \/ \E metacell \in ComputeDirectMetacells(adata.n_obs,
                                BaseCaseCover(adata.must_complete_cover)) :
                  stack' = Continued(
                      [PatchDirectMetacellsAnnotations(
                           [adata EXCEPT !.metacell = metacell])
                       EXCEPT !.pc = "returned"])
           \/ /\ adata.n_obs = 0
              /\ stack' = Continued(
                     Raised(adata, "compute_direct_metacells: no cells"))
    /\ UNCHANGED not_driver_vars

\* _initial_divide_and_conquer_results(adata, intermediate, pre_metacell =
\* True), when it does not raise: the counters are zeroed and every per-cell
\* result gets its initial value, the intermediate ones only if asked for.
InitialDivideAndConquerResults(adata) ==
    IF ~adata.intermediate
    THEN [adata EXCEPT !.pre_directs = 0,
                       !.final_directs = 0,
                       !.pre_metacell = Full(adata.n_obs, -1),
                       !.metacell = Full(adata.n_obs, -1)]
    ELSE [adata EXCEPT !.pre_directs = 0,
                       !.final_directs = 0,
                       !.pre_cell_directs = Full(adata.n_obs, 0),
                       !.final_cell_directs = Full(adata.n_obs, 0),
                       !.pre_pile = Full(adata.n_obs, -1),
                       !.pile = Full(adata.n_obs, -1),
                       !.pre_metacell = Full(adata.n_obs, -1),
                       !.metacell = Full(adata.n_obs, -1)]

\* compute_divide_and_conquer_metacells, recursive case:
\* _initial_divide_and_conquer_results (which raises a TypeError for its
\* dtype 'pre_gene_deviant_votes' when intermediate is set), ut.random_piles
\* and the entry of the preliminary _compute_piled_metacells.
RecursiveCase ==
    /\ stack # <<>>
    /\ Running.pc = "start"
    /\ Running.n_obs >= Running.pile_min_split_size
    /\ stack' = Continued(
           IF Running.intermediate
           THEN Raised(Running, "TypeError: data type not understood")
           ELSE PhaseEntered(
                    InitialDivideAndConquerResults(Running),
                    "preliminary",
                    RandomPiles(Running.n_obs, Running.target_pile_size,
                                Running.random_seed)))
    /\ UNCHANGED not_driver_vars

\* A slice that takes the cells of the pile and of the piles before it.
PileCellsUpTo(cdata, pile_index) ==
    Ascending({c \in 1 .. cdata.n_obs :
                  cdata.pile_of_cells[c] <= pile_index})

\* The cells of a pile, pile_of_cells == pile_index, in index order.
PileCells(cdata, pile_index) ==
    Ascending({c \in 1 .. cdata.n_obs :
                  cdata.pile_of_cells[c] = pile_index})

\* _compute_pile_metacells(pile_index) once compute_direct_metacells left
\* this 'metacell' on the cells of the pile: the result _pile_results builds
\* is the one the invocation for pile_index returns to parallel_map; finished
\* lists the invocations in the order they completed.
PileComputed(cdata, pile_index, metacell) ==
    [Invoked(cdata, cdata.phase, Len(PileCells(cdata, pile_index)),
             PileCover(PhaseCover(cdata)))
     EXCEPT !.finished = Append(@, pile_index),
            !.results_of_piles[pile_index + 1] =
                [done |-> TRUE,
                 complete_cell_index |-> PileCells(cdata, pile_index),
                 metacell |-> metacell,
                 must_complete_cover |-> PileCover(PhaseCover(cdata)),
                 random_seed |-> PileSeed(cdata.random_seed, pile_index)]]

\* _compute_pile_metacells(pile_index), run by ut.parallel_map for the piles
\* in any order: assert np.any(pile_cells_mask), slice the pile,
\* compute_direct_metacells, _pile_results.  parallel_map raises when one of
\* its invocations raises and then drops what the others returned, so for a
\* phase with an empty pile only the assertion is followed.
ComputePile ==
    /\ stack # <<>>
    /\ Running.pc = "piles"
    /\ IF \E pile_index \in 0 .. Running.piles_count - 1 :
              PileCells(Running, pile_index) = <<>>
       THEN stack' = Continued(
                Raised(Running, "assert np.any(pile_cells_mask)"))
       ELSE \E pile_index \in 0 .. Running.piles_count - 1 :
            \E cells \in {PileCells(Running, pile_index)} :
                /\ ~Running.results_of_piles[pile_index + 1].done
                /\ \E metacell \in ComputeDirectMetacells(Len(cells),
                                 PileCover(PhaseCover(Running))) :
                        stack' = Continued(
                            PileComputed(Running, pile_index, metacell))
    /\ UNCHANGED not_driver_vars

\* The cells a pile result is about, the index of its cells_frame.
CellsOfResult(cells_frame) ==
    {cells_frame.complete_cell_index[i] :
        i \in 1 .. Len(cells_frame.complete_cell_index)}

\* directs_of_cells[cell_indices] += 1, for every pile result.
IncrementedCellDirects(directs_of_cells, results_of_piles) ==
    [c \in 1 .. Len(directs_of_cells) |->
        directs_of_cells[c]
            + Cardinality({k \in 1 .. Len(results_of_piles) :
                              c \in CellsOfResult(results_of_piles[k])})]

\* pile_of_cells[cell_indices] = pile_index, for every pile result, where
\* pile_index is the position of the result in the list (enumerate).
PileIndexOfCells(pile_of_cells, results_of_piles) ==
    [c \in 1 .. Len(pile_of_cells) |->
        LET holders == {k \in 1 .. Len(results_of_piles) :
                           c \in CellsOfResult(results_of_piles[k])}
        IN  IF holders = {} THEN pile_of_cells[c]
            ELSE (CHOOSE k \in holders : \A j \in holders : j <= k) - 1]

\* The per-cell results _collect_pile_results writes only when intermediate
\* is set: _prefix('cell_directs', 'final') and _prefix('pile').
WithIntermediateOfPiles(cdata, results_of_piles) ==
    IF ~cdata.intermediate THEN cdata
    ELSE IF cdata.phase = "final"
    THEN [cdata EXCEPT
              !.final_cell_directs =
                  IncrementedCellDirects(@, results_of_piles),
              !.pile = PileIndexOfCells(@, results_of_piles)]
    ELSE [cdata EXCEPT
              !.pre_cell_directs =
                  IncrementedCellDirects(@, results_of_piles),
              !.pre_pile = PileIndexOfCells(@, results_of_piles)]

\* list(ut.parallel_map(function, invocations_count)): the results of the
\* invocations, in the order of the invocation index whatever the order
\* they completed in.
ParallelMap(results_of_invocations, finished) == results_of_invocations

\* A collection that takes the pile results in the order they completed in.
PilesCollectedAsCompleted(cdata, results_of_piles) ==
    LET as_completed == [k \in 1 .. Len(cdata.finished) |->
                            results_of_piles[cdata.finished[k] + 1]]
        collected == CollectPilesResults(MetacellOfPhase(cdata),
                                         as_completed)
    IN  [WithIntermediateOfPiles(
             WithPhaseResults(cdata, collected.metacell_of_cells,
                              Len(as_completed)),
             as_completed)
         EXCEPT !.piles_count = Len(as_completed),
                !.metacells_count = collected.metacells_count,
                !.pc = "collected"]

\* _compute_piled_metacells once parallel_map returned results_of_piles:
\* piles_count = len(results_of_piles) and _collect_piles_results.
PilesCollected(cdata, results_of_piles) ==
    LET collected == CollectPilesResults(MetacellOfPhase(cdata),
                                         results_of_piles)
    IN  [WithIntermediateOfPiles(
             WithPhaseResults(cdata, collected.metacell_of_cells,
                              Len(results_of_piles)),
             results_of_piles)
         EXCEPT !.piles_count = Len(results_of_piles),
                !.metacells_count = collected.metacells_count,
                !.pc = "collected"]

\* _compute_piled_metacells after parallel_map returned every pile's result:
\* piles_count = len(results_of_piles) and _collect_piles_results.
CollectPiles ==
    /\ stack # <<>>
    /\ Running.pc = "piles"
    /\ \A p \in 1 .. Running.piles_count : Running.results_of_piles[p].done
    /\ stack' = Continued(
           PilesCollected(Running, ParallelMap(Running.results_of_piles,
                                               Running.finished)))
    /\ UNCHANGED not_driver_vars

\* outlier_of_cells = metacell_of_cells < 0
OutlierOfCells(cdata) ==
    {c \in 1 .. cdata.n_obs : MetacellOfPhase(cdata)[c] < 0}

\* A condition that stops the outlier recursion one level later.
NoOutliersRecursionBelowZero(cdata) ==
    \/ OutlierOfCells(cdata) = {}
    \/ /\ ~PhaseCover(cdata)
       /\ PhaseLevels(cdata) # NoLevels
       /\ PhaseLevels(cdata)[1] < 0

\* The condition under which _compute_piled_metacells returns without an
\* outlier recursion.
NoOutliersRecursion(cdata) ==
    \/ OutlierOfCells(cdata) = {}
    \/ /\ ~PhaseCover(cdata)
       /\ PhaseLevels(cdata) # NoLevels
       /\ PhaseLevels(cdata)[1] <= 0

\* if max_outliers_levels is not None:
\*     max_outliers_levels = max_outliers_levels - 1
DecrementedLevels(max_outliers_levels) ==
    IF max_outliers_levels # NoLevels
    THEN <<max_outliers_levels[1] - 1>> ELSE NoLevels

\* _compute_piled_metacells returns: nothing to recurse on, or not allowed.
SkipOutliers ==
    /\ stack # <<>>
    /\ Running.pc = "collected"
    /\ NoOutliersRecursion(Running)
    /\ stack' = Continued(PhaseReturned(Running))
    /\ UNCHANGED not_driver_vars

\* A recursion on the outliers that does not wait for the piles.
RecurseOutliersEarly ==
    /\ stack # <<>>
    /\ Running.pc = "piles"
    /\ ~NoOutliersRecursion(Running)
    /\ LET outlier_of_cells == OutlierOfCells(Running)
           max_outliers_levels == DecrementedLevels(PhaseLevels(Running))
       IN  stack' = Append(
               Continued([Running EXCEPT
                              !.pc = "outliers",
                              !.outlier_of_cells = outlier_of_cells]),
               Invocation("outliers", Cardinality(outlier_of_cells),
                          PhaseCover(Running), max_outliers_levels, TRUE,
                          Ascending(outlier_of_cells),
                          Running.target_pile_size,
                          Running.pile_min_split_size,
                          Running.random_seed))
    /\ UNCHANGED not_driver_vars

\* _compute_piled_metacells recurses on the outliers: the levels are
\* decremented, the outlier cells are sliced and
\* compute_divide_and_conquer_metacells is called on them (intermediate is
\* not passed, so it has its default, True).
RecurseOutliers ==
    /\ stack # <<>>
    /\ Running.pc = "collected"
    /\ ~NoOutliersRecursion(Running)
    /\ LET outlier_of_cells == OutlierOfCells(Running)
           max_outliers_levels == DecrementedLevels(PhaseLevels(Running))
       IN  stack' = Append(
               Continued([Running EXCEPT
                              !.pc = "outliers",
                              !.outlier_of_cells = outlier_of_cells]),
               Invocation("outliers", Cardinality(outlier_of_cells),
                          PhaseCover(Running), max_outliers_levels, TRUE,
                          Ascending(outlier_of_cells),
                          Running.target_pile_size,
                          Running.pile_min_split_size,
                          Running.random_seed))
    /\ UNCHANGED not_driver_vars

\* History: the calls of compute_direct_metacells made inside the outlier
\* recursion odata are calls made for the phase of cdata that recursed.
WithOutliersCalls(cdata, odata) ==
    [cdata EXCEPT
         !.direct_calls[cdata.phase] =
             @ + odata.direct_calls.preliminary + odata.direct_calls.final,
         !.direct_inputs =
             @ \cup {[phase |-> cdata.phase, n_obs |-> in.n_obs,
                      must_complete_cover |-> in.must_complete_cover] :
                         in \in odata.direct_inputs}]

\* _collect_outliers_results once the outlier recursion returned: its directs
\* are added, its metacells are shifted by metacells_count and written at
\* the outliers' complete_cell_index; then _compute_piled_metacells returns.
\* With intermediate set it goes on to read the per-cell 'pre_cell_directs'
\* of odata as per-gene data (get_v_data), which raises a KeyError.
CollectOutliers ==
    /\ Len(stack) >= 2
    /\ Running.pc = "returned"
    /\ Running.kind = "outliers"
    /\ LET odata == Running
           cdata == WithOutliersCalls(stack[Len(stack) - 1], odata)
           outlier_metacells == Shifted(odata.metacell,
                                        cdata.metacells_count)
           collected == WithPhaseResults(cdata,
                            Scattered(MetacellOfPhase(cdata),
                                      odata.complete_cell_index,
                                      outlier_metacells),
                            odata.pre_directs + odata.final_directs)
       IN  stack' = [SubSeq(stack, 1, Len(stack) - 1)
                     EXCEPT ![Len(stack) - 1] =
                         IF cdata.intermediate
                         THEN Raised(collected,
                                  "KeyError: pre_cell_directs")
                         ELSE PhaseReturned(collected)]
    /\ UNCHANGED not_driver_vars

\* compute_divide_and_conquer_metacells after the preliminary phase:
\* pp.group_obs_data by 'pre_metacell' (None, hence a ValueError, when no
\* cell has a group) and the recursion on the preliminary metacells.
GroupMetacells ==
    /\ stack # <<>>
    /\ Running.pc = "metacell_piles"
    /\ IF \A c \in 1 .. Running.n_obs : Running.pre_metacell[c] < 0
       THEN stack' = Continued(
                Raised(Running, "ValueError: Empty metacells data"))
       ELSE stack' = Append(
                Continued([Running EXCEPT !.pc = "meta"]),
                Invocation("meta", MaxOf(Running.pre_metacell) + 1, TRUE,
                           NoLevels, Running.intermediate, <<>>,
                           Running.target_pile_size,
                           Running.pile_min_split_size,
                           Running.random_seed))
    /\ UNCHANGED not_driver_vars

\* compute_divide_and_conquer_metacells once the recursion on the preliminary
\* metacells returned: the piles of the cells are grouped from the 'metacell'
\* annotation of adata and the 'metacell' annotation of mdata, and the final
\* _compute_piled_metacells is entered.
FinalPiles ==
    /\ Len(stack) >= 2
    /\ Running.pc = "returned"
    /\ Running.kind = "meta"
    /\ LET mdata == Running
           adata == stack[Len(stack) - 1]
           preliminary_metacell_of_cells == adata.metacell
           pile_of_preliminary_metacells == mdata.metacell
           preliminary_pile_of_cells ==
               GroupPiles(preliminary_metacell_of_cells,
                          pile_of_preliminary_metacells)
       IN  stack' = [SubSeq(stack, 1, Len(stack) - 1)
                     EXCEPT ![Len(stack) - 1] =
                         PhaseEntered(adata, "final",
                                      preliminary_pile_of_cells)]
    /\ UNCHANGED not_driver_vars

(* -------------------- the driver: inputs and specification ------------- *)
\* The values of target_pile_size * pile_min_split_size_factor tried: the
\* factor 1 and the smallest factor that gives the next integer.
PileMinSplitSizes == {TargetPileSize, TargetPileSize + 1}

\* The values of max_outliers_levels tried.
OutliersLevels == {NoLevels, <<0>>, <<MaxLevels>>}

\* The Improver is not running while the driver is looked at.
ImproverIdle ==
    /\ membership = <<>>
    /\ node_sizes = <<>>
    /\ target_comm_size = TargetSize
    /\ max_comm_size = None
    /\ min_comm_size = None
    /\ min_comm_nodes = None
    /\ must_complete_cover = FALSE
    /\ communities = <<>>
    /\ too_few = 0
    /\ too_small = 0
    /\ too_large = 0
    /\ next_community_index = 0
    /\ improver_pc = "idle"
    /\ penalty = <<0, 0>>
    /\ did_split = FALSE
    /\ position = 1
    /\ split_did_split = FALSE
    /\ community_of_cells = <<>>
    /\ initial_membership = <<>>
    /\ partition_calls = 0
    /\ merges_count = 0
    /\ splits_count = 0
    /\ split_mark = 0
    /\ pack_nodes = {}
    /\ fill_mark = 0
    /\ monolithic_masks = {}
    /\ outer_iterations = 0
    /\ entered = <<0, 0>>

\* The top-level call of compute_divide_and_conquer_metacells.
DriverInit ==
    /\ ImproverIdle
    /\ arguments = <<>>
    /\ runs = <<>>
    /\ sliced = <<>>
    /\ collects = <<>>
    /\ \E n_obs \in 0 .. CellsCount, cover \in BOOLEAN,
          levels \in OutliersLevels, intermediate \in BOOLEAN,
          pile_min_split_size \in PileMinSplitSizes,
          random_seed \in 0 .. MaxSeed :
           stack = <<Invocation("top", n_obs, cover, levels, intermediate,
                                <<>>, TargetPileSize, pile_min_split_size,
                                random_seed)>>

DriverNext ==
    \/ DirectCase \/ RecursiveCase \/ ComputePile \/ CollectPiles
    \/ SkipOutliers \/ RecurseOutliers \/ CollectOutliers
    \/ GroupMetacells \/ FinalPiles

SpecDriver == DriverInit /\ [][DriverNext]_vars

(* ------------- compute_candidate_metacells: its arguments -------------- *)
\* The size factors are fractions: a factor is a number of halves.
FactorUnit == 2

\* The values of min_split_size_factor and max_merge_size_factor tried: None,
\* 0 and the positive factors up to MaxFactor / FactorUnit.
Factors == {None} \cup (0 .. MaxFactor)

\* ceil(target_metacell_size * min_split_size_factor) - 1, or None.
MaxMetacellSize(args) ==
    IF args.min_split_size_factor = None THEN None
    ELSE ((args.target_metacell_size * args.min_split_size_factor
               + FactorUnit - 1) \div FactorUnit) - 1

\* floor(target_metacell_size * max_merge_size_factor) + 1, or None.
MinMetacellSize(args) ==
    IF args.max_merge_size_factor = None THEN None
    ELSE ((args.target_metacell_size * args.max_merge_size_factor)
              \div FactorUnit) + 1

\* A validation that does not compare the two factors and the two bounds.
RejectionOfEachAlone(args) ==
    IF ~(args.target_metacell_size > 0)
    THEN "assert target_metacell_size > 0"
    ELSE IF args.min_split_size_factor # None
            /\ ~(args.min_split_size_factor > 0)
    THEN "assert min_split_size_factor > 0"
    ELSE IF args.max_merge_size_factor # None
            /\ ~(args.max_merge_size_factor > 0)
    THEN "assert max_merge_size_factor > 0"
    ELSE ""

\* The first assertion of lines 128-154 that fails for the arguments, "" when
\* they all hold.
Rejection(args) ==
    IF ~(args.target_metacell_size > 0)
    THEN "assert target_metacell_size > 0"
    ELSE IF args.min_split_size_factor # None
            /\ ~(args.min_split_size_factor > 0)
    THEN "assert min_split_size_factor > 0"
    ELSE IF args.max_merge_size_factor # None
            /\ ~(args.max_merge_size_factor > 0)
    THEN "assert max_merge_size_factor > 0"
    ELSE IF args.min_split_size_factor # None
            /\ args.max_merge_size_factor # None
            /\ ~(args.max_merge_size_factor < args.min_split_size_factor)
    THEN "assert max_merge_size_factor < min_split_size_factor"
    ELSE IF args.min_split_size_factor # None
            /\ args.max_merge_size_factor # None
            /\ ~(MinMetacellSize(args) <= MaxMetacellSize(args))
    THEN "assert min_metacell_size <= max_metacell_size"
    ELSE ""

\* compute_candidate_metacells is called: nothing is computed yet.
CandidatesInit ==
    /\ ImproverIdle
    /\ stack = <<>>
    /\ runs = <<>>
    /\ sliced = <<>>
    /\ collects = <<>>
    /\ \E target_metacell_size \in -1 .. TargetSize + 1,
          min_split_size_factor \in Factors,
          max_merge_size_factor \in Factors :
           arguments = <<[target_metacell_size |-> target_metacell_size,
                          min_split_size_factor |-> min_split_size_factor,
                          max_merge_size_factor |-> max_merge_size_factor,
                          pc |-> "entry", error |-> "",
                          max_metacell_size |-> None,
                          min_metacell_size |-> None,
                          partition_calls |-> 0,
                          community_of_cells |-> <<>>]>>

\* compute_candidate_metacells, lines 128-154: the assertions on the
\* arguments and the size bounds computed from the factors.
Validate ==
    /\ arguments # <<>>
    /\ arguments[1].pc = "entry"
    /\ \E args \in {arguments[1]} :
           arguments' =
               IF Rejection(args) # ""
               THEN <<[args EXCEPT !.pc = "rejected",
                                   !.error = Rejection(args)]>>
               ELSE <<[args EXCEPT !.pc = "validated",
                                   !.max_metacell_size =
                                       MaxMetacellSize(args),
                                   !.min_metacell_size =
                                       MinMetacellSize(args)]>>
    /\ UNCHANGED <<improver_vars, driver_vars, replay_vars, slice_vars,
                   collect_vars>>

\* compute_candidate_metacells, lines 158-164: the first call of the
\* partition method.
PartitionCall ==
    /\ arguments # <<>>
    /\ arguments[1].pc = "validated"
    /\ \E result \in PartitionResults(NodesCount) :
           arguments' = <<[arguments[1] EXCEPT
                               !.pc = "partitioned",
                               !.partition_calls = @ + 1,
                               !.community_of_cells = result]>>
    /\ UNCHANGED <<improver_vars, driver_vars, replay_vars, slice_vars,
                   collect_vars>>

CandidatesNext == Validate \/ PartitionCall

SpecCandidates == CandidatesInit /\ [][CandidatesNext]_vars

(* ------------------- one phase, for all its arguments ------------------ *)
\* A call of _compute_piled_metacells for either phase, with the piles
\* random_piles makes of the cells: in the final phase the
\* must_complete_cover and the max_outliers_levels are those of the caller
\* (lines 764-765), in the preliminary phase they are True and None.  The
\* data holds the initial results, with and without the intermediate ones.
PiledInit ==
    /\ ImproverIdle
    /\ arguments = <<>>
    /\ runs = <<>>
    /\ sliced = <<>>
    /\ collects = <<>>
    /\ \E n_obs \in TargetPileSize + 1 .. CellsCount, cover \in BOOLEAN,
          levels \in OutliersLevels, phase \in {"preliminary", "final"},
          intermediate \in BOOLEAN,
          pile_min_split_size \in PileMinSplitSizes,
          random_seed \in 0 .. MaxSeed :
           stack = <<PhaseEntered(
                         InitialDivideAndConquerResults(
                             Invocation("top", n_obs, cover, levels,
                                        intermediate, <<>>, TargetPileSize,
                                        pile_min_split_size, random_seed)),
                         phase,
                         RandomPiles(n_obs, TargetPileSize, random_seed))>>

\* The steps of the phase and of the outlier recursion it may call.
PiledNext ==
    \/ ComputePile \/ CollectPiles \/ SkipOutliers \/ RecurseOutliers
    \/ DirectCase \/ RecursiveCase \/ CollectOutliers

SpecPiled == PiledInit /\ [][PiledNext]_vars

(* ------------- one phase, executed twice on the same data -------------- *)
\* compute_direct_metacells is deterministic: what it leaves on each pile of
\* cdata is fixed by the pile and the seed, one choice for each pile.
DirectOutputs(cdata) ==
    LET of_pile(p) == ComputeDirectMetacells(Len(PileCells(cdata, p - 1)),
                                             PileCover(PhaseCover(cdata)))
    IN  {outputs \in [1 .. cdata.piles_count ->
                          UNION {of_pile(p) : p \in 1 .. cdata.piles_count}] :
            \A p \in 1 .. cdata.piles_count : outputs[p] \in of_pile(p)}

\* _compute_piled_metacells is entered twice for the preliminary phase with
\* the same cells, the same random piles and the same seed, with and without
\* intermediate; each execution has the piles completed in an order of its
\* own.
ReplayInit ==
    /\ ImproverIdle
    /\ arguments = <<>>
    /\ stack = <<>>
    /\ sliced = <<>>
    /\ collects = <<>>
    /\ \E n_obs \in TargetPileSize + 1 .. CellsCount,
          intermediate \in BOOLEAN, random_seed \in 0 .. MaxSeed :
       \E cdata \in {PhaseEntered(
                         InitialDivideAndConquerResults(
                             Invocation("top", n_obs, FALSE, NoLevels,
                                        intermediate, <<>>, TargetPileSize,
                                        TargetPileSize, random_seed)),
                         "preliminary",
                         RandomPiles(n_obs, TargetPileSize, random_seed))} :
       \E outputs \in DirectOutputs(cdata) :
           runs = [r \in 1 .. 2 |-> [cdata |-> cdata, outputs |-> outputs]]

\* _compute_pile_metacells(pile_index) completes in one of the executions.
ReplayPile ==
    /\ \E r \in 1 .. Len(runs) :
       \E cdata \in {runs[r].cdata} :
       \E pile_index \in 0 .. cdata.piles_count - 1 :
           /\ cdata.pc = "piles"
           /\ ~cdata.results_of_piles[pile_index + 1].done
           /\ runs' = [runs EXCEPT ![r].cdata =
                           PileComputed(cdata, pile_index,
                                        runs[r].outputs[pile_index + 1])]
    /\ UNCHANGED <<improver_vars, driver_vars, candidates_vars, slice_vars,
                   collect_vars>>

\* parallel_map returns in one of the executions and the piles are collected.
ReplayCollect ==
    /\ \E r \in 1 .. Len(runs) :
       \E cdata \in {runs[r].cdata} :
           /\ cdata.pc = "piles"
           /\ \A p \in 1 .. cdata.piles_count : cdata.results_of_piles[p].done
           /\ runs' = [runs EXCEPT ![r].cdata =
                           PilesCollected(cdata,
                               ParallelMap(cdata.results_of_piles,
                                           cdata.finished))]
    /\ UNCHANGED <<improver_vars, driver_vars, candidates_vars, slice_vars,
                   collect_vars>>

ReplayNext == ReplayPile \/ ReplayCollect

SpecReplay == ReplayInit /\ [][ReplayNext]_vars

(* ------------------------- properties: Improver ------------------------ *)
\* C2: after construction and after every merge_few_or_small, split_large,
\* pack and fill, the listed communities partition the nodes: every node's
\* membership id is the index of exactly one listed community whose mask
\* holds the node, the sizes of the listed communities add up to the sum of
\* all node sizes and their node counts add up to the number of nodes.
CommunitiesPartitionNodes ==
    /\ \A n \in Nodes :
           Cardinality({p \in 1 .. Len(communities) :
                           communities[p].index = membership[n]}) = 1
    /\ \A n \in Nodes : \A p \in 1 .. Len(communities) :
           n \in communities[p].mask
               <=> communities[p].index = membership[n]
    /\ FieldSum(communities, "size") = SumOver(node_sizes, Nodes)
    /\ FieldSum(communities, "nodes") = NodesCount

\* A state after a merge that fused communities, a split and a pack.
CommunitiesPartitionNodesWitness ==
    /\ improver_pc = "done"
    /\ merges_count > 0
    /\ splits_count > 0
    /\ pack_nodes # {}

\* The final states of compute_candidate_metacells after pack().
AfterPack == improver_pc \in {"fill", "compress", "done"}

\* The final states of compute_candidate_metacells after fill().
AfterFill == improver_pc \in {"compress", "done"}

\* C3 as stated: with a minimum size configured, after improve(), pack() and
\* fill() every community has a total size of at least the minimum.
AllCommunitiesReachMinSize ==
    (improver_pc = "done" /\ min_comm_size # None) =>
        \A p \in 1 .. Len(communities) :
            communities[p].size >= min_comm_size

\* C3 amended: with a minimum size configured, after pack() (and fill())
\* every community below the minimum size consists only of nodes of the
\* communities pack() regrouped; every community holding a node that pack()
\* left alone has a total size of at least the minimum.
SmallCommunitiesComeFromPack ==
    (AfterPack /\ min_comm_size # None) =>
        \A p \in 1 .. Len(communities) :
            communities[p].size < min_comm_size =>
                communities[p].mask \subseteq pack_nodes

\* pack() ran, left a bin below the minimum size next to a community it did
\* not touch.
SmallCommunitiesComeFromPackWitness ==
    /\ improver_pc = "done"
    /\ min_comm_size # None
    /\ \E p, q \in 1 .. Len(communities) :
           /\ communities[p].size < min_comm_size
           /\ communities[p].mask \subseteq pack_nodes
           /\ communities[q].size >= min_comm_size
           /\ communities[q].mask \cap pack_nodes = {}

\* C4 as stated: with a minimum node count configured, after fill() every
\* community has at least the minimum node count.
AllCommunitiesReachMinNodes ==
    (improver_pc = "done" /\ min_comm_nodes # None) =>
        \A p \in 1 .. Len(communities) :
            communities[p].nodes >= min_comm_nodes

\* C4 amended: with a minimum node count configured, after fill() every
\* community with fewer nodes than the minimum is a bin fill() itself
\* created; every community fill() did not create has at least the minimum
\* node count.
FewCommunitiesComeFromFill ==
    (AfterFill /\ min_comm_nodes # None) =>
        \A p \in 1 .. Len(communities) :
            communities[p].nodes < min_comm_nodes =>
                communities[p].index >= fill_mark

\* fill() ran, left a short bin next to a community it did not create.
FewCommunitiesComeFromFillWitness ==
    /\ improver_pc = "done"
    /\ min_comm_nodes # None
    /\ \E p, q \in 1 .. Len(communities) :
           /\ communities[p].nodes < min_comm_nodes
           /\ communities[p].index >= fill_mark
           /\ communities[q].index < fill_mark

\* C5 as stated: with a maximum size configured, after improve(), pack() and
\* fill() every community above the maximum size is flagged monolithic.
OnlyMonolithicExceedMaxSize ==
    (improver_pc = "done" /\ max_comm_size # None) =>
        \A p \in 1 .. Len(communities) :
            communities[p].size > max_comm_size =>
                communities[p].monolithic

\* C5 amended: with a maximum size configured, after improve(), pack() and
\* fill() every community above the maximum size that already existed when
\* the last split_large pass of improve() ended is flagged monolithic; only
\* communities created after it (by a merge, pack or fill) exceed the maximum
\* without the flag.
OldLargeCommunitiesAreMonolithic ==
    (improver_pc \in {"pack", "fill", "compress", "done"}
     /\ max_comm_size # None) =>
        \A p \in 1 .. Len(communities) :
            (communities[p].size > max_comm_size
             /\ communities[p].index < split_mark) =>
                communities[p].monolithic

\* A community that could not be split is still too large at the end.
OldLargeCommunitiesAreMonolithicWitness ==
    /\ improver_pc = "done"
    /\ max_comm_size # None
    /\ \E p \in 1 .. Len(communities) :
           /\ communities[p].size > max_comm_size
           /\ communities[p].index < split_mark
           /\ communities[p].monolithic

\* The initial membership has no violation: too_few = too_small = too_large
\* = 0 for every community add() builds from it.
InitiallyCompliant ==
    \A i \in 0 .. MaxOf(initial_membership) :
        LET community == NewCommunity(initial_membership, i)
        IN  /\ community.too_few = 0
            /\ community.too_small = 0
            /\ community.too_large = 0

\* Two membership vectors group the nodes the same way.
SamePartition(f, g) ==
    \A n, m \in Nodes : (f[n] = f[m]) <=> (g[n] = g[m])

\* C6: when the initial membership is compliant, improve(), pack() and
\* fill() never invoke the partition method, merge nothing, split nothing
\* and leave the membership vector as it was, so the compressed output groups
\* the nodes exactly as the input did.
CompliantInputIsUntouched ==
    InitiallyCompliant =>
        /\ partition_calls = 0
        /\ merges_count = 0
        /\ splits_count = 0
        /\ membership = initial_membership
        /\ SamePartition(community_of_cells, initial_membership)

\* A compliant membership of several communities went through the whole run.
CompliantInputIsUntouchedWitness ==
    /\ improver_pc = "done"
    /\ InitiallyCompliant
    /\ Len(communities) >= 2
    /\ min_comm_size # None

\* C7: improve() terminates: whatever valid memberships the partition method
\* returns, the merge loops, the split loop and the outer penalty loop are
\* all left and control reaches pack().
ImproveTerminates ==
    <>(improver_pc \in {"pack", "fill", "compress", "done"})

\* improve() ended after it went through merges and splits.
ImproveTerminatesWitness ==
    /\ improver_pc = "pack"
    /\ merges_count > 1
    /\ splits_count > 0

(* ------------------------- properties: the driver ---------------------- *)
\* C1: every invocation of compute_divide_and_conquer_metacells with
\* must_complete_cover set that returns, at whatever depth of the recursion,
\* leaves every one of its cells with a non-negative 'metacell' (none is left
\* at the -1 outlier value), given that compute_direct_metacells honours
\* must_complete_cover.
CoverIsComplete ==
    \A i \in 1 .. Len(stack) :
        (stack[i].pc = "returned" /\ stack[i].must_complete_cover) =>
            /\ Len(stack[i].metacell) = stack[i].n_obs
            /\ \A c \in 1 .. stack[i].n_obs : stack[i].metacell[c] >= 0

\* An outlier recursion, two invocations deep, returned a complete cover.
CoverIsCompleteWitness ==
    /\ Len(stack) >= 2
    /\ Running.pc = "returned"
    /\ Running.kind = "outliers"
    /\ Running.must_complete_cover
    /\ Running.n_obs >= 2

\* C8 as stated: once the pile results of a phase are collected, two cells
\* that were computed in different piles never hold the same non-negative
\* metacell index in the phase's vector.
PilesNeverShareMetacells ==
    \A i \in 1 .. Len(stack) :
        stack[i].pc = "collected" =>
            \A c, d \in 1 .. stack[i].n_obs :
                (/\ stack[i].pile_of_cells[c] # stack[i].pile_of_cells[d]
                 /\ MetacellOfPhase(stack[i])[c] >= 0) =>
                    MetacellOfPhase(stack[i])[c]
                        # MetacellOfPhase(stack[i])[d]

\* C9 as stated: once the result of an outlier recursion is written back, a
\* cell that was computed again in the outlier recursion never holds the same
\* non-negative metacell index as a cell that kept the index of its pile.
OutliersNeverShareMetacells ==
    \A i \in 1 .. Len(stack) :
        (stack[i].outlier_of_cells # {} /\ stack[i].pc # "outliers") =>
            \A c \in stack[i].outlier_of_cells :
                \A d \in (1 .. stack[i].n_obs) \ stack[i].outlier_of_cells :
                    MetacellOfPhase(stack[i])[c] >= 0 =>
                        MetacellOfPhase(stack[i])[c]
                            # MetacellOfPhase(stack[i])[d]

NoPrefix == "None"

\* The name of an annotation: the name it was given, under a prefix.
Named(prefix, name) == [prefix |-> prefix, name |-> name]

\* _slice_action for an annotation whose SAFE_SLICING entry is slicing_mask
\* and whose name holds '__' (is_per) or not; the layout suffixes
\* ':__row_major__' and ':__column_major__' are names of layers only.
SliceAction(slicing_mask, do_slice_obs, do_slice_var, will_prefix_invalidated) ==
    IF /\ slicing_mask.per_obs \/ ~do_slice_obs
       /\ slicing_mask.per_var \/ ~do_slice_var
    THEN "preserve"
    ELSE IF slicing_mask.is_per \/ ~will_prefix_invalidated
    THEN "discard"
    ELSE "prefix"

\* The action for an annotation of the call: a name that was prefixed has
\* the SAFE_SLICING entry of the name it was made from (line 492).
ActionOf(call, annotation, will_prefix_invalidated) ==
    SliceAction(call.safe_slicing[annotation.name], call.will_slice_obs,
                call.will_slice_var, will_prefix_invalidated)

\* A call of ut.slice on data that holds AnnotationsCount per-observation,
\* per-variable or unstructured annotations, for every SAFE_SLICING entry
\* they may have.
SliceInit ==
    /\ ImproverIdle
    /\ stack = <<>>
    /\ arguments = <<>>
    /\ runs = <<>>
    /\ collects = <<>>
    /\ \E safe_slicing \in [1 .. AnnotationsCount ->
                                [per_obs : BOOLEAN, per_var : BOOLEAN,
                                 is_per : BOOLEAN]],
          will_slice_obs \in BOOLEAN, will_slice_var \in BOOLEAN,
          invalidated_prefix \in {NoPrefix, "", "invalid."} :
           sliced = <<[pc |-> "entry", error |-> "",
                       safe_slicing |-> safe_slicing,
                       will_slice_obs |-> will_slice_obs,
                       will_slice_var |-> will_slice_var,
                       invalidated_prefix |-> invalidated_prefix,
                       held |-> {Named("", k) : k \in 1 .. AnnotationsCount},
                       adata |-> {Named("", k) : k \in 1 .. AnnotationsCount},
                       bdata |-> {},
                       saved_data |-> {}]>>

\* slice, lines 285-317: the empty prefix is refused; when nothing is to be
\* sliced the result is adata[:, :].
SliceEntry ==
    /\ sliced # <<>>
    /\ sliced[1].pc = "entry"
    /\ \E call \in {sliced[1]} :
           sliced' =
               IF call.invalidated_prefix = ""
               THEN <<[call EXCEPT !.pc = "failed",
                                   !.error = "assert invalidated_prefix != ''"]>>
               ELSE IF ~call.will_slice_obs /\ ~call.will_slice_var
               THEN <<[call EXCEPT !.pc = "returned", !.bdata = call.adata]>>
               ELSE <<[call EXCEPT !.pc = "save"]>>
    /\ UNCHANGED <<improver_vars, driver_vars, candidates_vars, replay_vars,
                   collect_vars>>

\* _save_data / _save_per_data: an annotation to discard is put in
\* saved_data and deleted from adata; an annotation to prefix is put in the
\* local prefixed_data, which nothing reads, and deleted from adata.
SaveData ==
    /\ sliced # <<>>
    /\ sliced[1].pc = "save"
    /\ \E call \in {sliced[1]} :
       \E will_prefix \in {call.invalidated_prefix # NoPrefix} :
           sliced' = <<[call EXCEPT
               !.pc = "builtin",
               !.saved_data =
                   {a \in call.adata :
                       ActionOf(call, a, will_prefix) = "discard"},
               !.adata =
                   {a \in call.adata :
                       ActionOf(call, a, will_prefix) = "preserve"}]>>
    /\ UNCHANGED <<improver_vars, driver_vars, candidates_vars, replay_vars,
                   collect_vars>>

\* slice, lines 323-330: bdata = adata[obs, vars] holds what adata holds now.
BuiltinSlice ==
    /\ sliced # <<>>
    /\ sliced[1].pc = "builtin"
    /\ sliced' = <<[sliced[1] EXCEPT
                        !.pc = IF sliced[1].invalidated_prefix # NoPrefix
                               THEN "prefix" ELSE "restore",
                        !.bdata = sliced[1].adata]>>
    /\ UNCHANGED <<improver_vars, driver_vars, candidates_vars, replay_vars,
                   collect_vars>>

\* _prefix_data / _prefix_per_data: an annotation of bdata to prefix is put
\* in saved_data under the prefixed name and deleted from bdata.
PrefixData ==
    /\ sliced # <<>>
    /\ sliced[1].pc = "prefix"
    /\ \E call \in {sliced[1]} :
           sliced' = <<[call EXCEPT
               !.pc = "restore",
               !.saved_data =
                   @ \cup {Named(call.invalidated_prefix, a.name) :
                              a \in {b \in call.bdata :
                                         ActionOf(call, b, TRUE) = "prefix"}},
               !.bdata =
                   {a \in call.bdata :
                       ActionOf(call, a, TRUE) = "preserve"}]>>
    /\ UNCHANGED <<improver_vars, driver_vars, candidates_vars, replay_vars,
                   collect_vars>>

\* _restore_data(saved_data, adata) and the return of bdata.
RestoreData ==
    /\ sliced # <<>>
    /\ sliced[1].pc = "restore"
    /\ sliced' = <<[sliced[1] EXCEPT
                        !.pc = "returned",
                        !.adata = @ \cup sliced[1].saved_data]>>
    /\ UNCHANGED <<improver_vars, driver_vars, candidates_vars, replay_vars,
                   collect_vars>>

SliceNext ==
    \/ SliceEntry \/ SaveData \/ BuiltinSlice \/ PrefixData \/ RestoreData

SpecSlice == SliceInit /\ [][SliceNext]_vars

(* ------------- _collect_pile_results, for all its arguments ------------ *)
\* The piles of n_obs cells: every cell is in pile 0 or 1 and no pile is
\* empty (an empty pile fails the assertion of _compute_pile_metacells).
TwoPiles(n_obs) ==
    {pile_of_cells \in [1 .. n_obs -> 0 .. 1] :
        \A pile_index \in 0 .. 1 :
            \E c \in 1 .. n_obs : pile_of_cells[c] = pile_index}

\* A call of _collect_pile_results for the result of one pile of cdata:
\* cells_frame is what _pile_results made of the pile, its index being the
\* cells of the pile; the phase's 'metacell' may hold what other piles wrote;
\* metacells_count is any count.  held is what cdata holds at the call.
CollectInit ==
    /\ ImproverIdle
    /\ stack = <<>>
    /\ arguments = <<>>
    /\ runs = <<>>
    /\ sliced = <<>>
    /\ \E n_obs \in 2 .. SlotsCount, pile_index \in 0 .. 1,
          intermediate \in BOOLEAN, metacells_count \in 0 .. MaxCount :
       \E pile_of_cells \in TwoPiles(n_obs),
          metacell_of_cells \in [1 .. n_obs -> {-1, 0}] :
       \E cell_indices \in {PileCells([n_obs |-> n_obs,
                                        pile_of_cells |-> pile_of_cells],
                                       pile_index)} :
       \E pile_metacells \in
               ComputeDirectMetacells(Len(cell_indices), FALSE) :
           collects =
               <<[pc |-> "entry", n_obs |-> n_obs,
                  pile_of_cells |-> pile_of_cells,
                  pile_index |-> pile_index,
                  intermediate |-> intermediate,
                  metacells_count |-> metacells_count,
                  cells_frame |-> [complete_cell_index |-> cell_indices,
                                   metacell |-> pile_metacells],
                  directs |-> 0,
                  metacell |-> metacell_of_cells,
                  cell_directs |-> Full(n_obs, 0),
                  pile |-> Full(n_obs, -1),
                  held |-> [metacell |-> metacell_of_cells,
                            cell_directs |-> Full(n_obs, 0),
                            pile |-> Full(n_obs, -1)],
                  returned_count |-> 0]>>

\* _collect_pile_results: directs + 1, the shifted metacells of the pile are
\* written at the cells of the pile and, with intermediate, the cell_directs
\* of these cells are incremented and their pile is set to pile_index; the
\* new count is returned.
CollectPile ==
    /\ collects # <<>>
    /\ collects[1].pc = "entry"
    /\ \E call \in {collects[1]} :
       \E pile \in {CollectPileResults(call.metacell, call.cells_frame,
                                       call.metacells_count)} :
           collects' =
               <<[call EXCEPT
                   !.pc = "returned",
                   !.directs = @ + 1,
                   !.metacell = pile.metacell_of_cells,
                   !.returned_count = pile.metacells_count,
                   !.cell_directs =
                       IF call.intermediate
                       THEN IncrementedCellDirects(@, <<call.cells_frame>>)
                       ELSE @,
                   !.pile =
                       IF call.intermediate
                       THEN Scattered(@, call.cells_frame.complete_cell_index,
                                Full(Len(call.cells_frame.complete_cell_index),
                                     call.pile_index))
                       ELSE @]>>
    /\ UNCHANGED <<improver_vars, driver_vars, candidates_vars, replay_vars,
                   slice_vars>>

CollectNext == CollectPile

SpecCollect == CollectInit /\ [][CollectNext]_vars

(* ---------------------- properties: C11 .. C20 ------------------------- *)
\* The results of a phase that the caller can see.
PhaseResults(cdata) ==
    <<cdata.pre_metacell, cdata.metacell, cdata.pile_of_cells,
      cdata.pre_pile, cdata.pile, cdata.pre_directs, cdata.final_directs,
      cdata.pre_cell_directs, cdata.final_cell_directs,
      cdata.metacells_count, cdata.piles_count>>

BaseCaseIsDirect ==
    \A d \in 1 .. Len(stack) :
        LET adata == stack[d]
        IN  /\ adata.n_obs < adata.pile_min_split_size
            /\ adata.pc # "start"
            => /\ d = Len(stack)
               /\ adata.pc \in {"returned", "failed"}
               /\ adata.direct_calls = [preliminary |-> 0, final |-> 1]
               /\ adata.direct_inputs =
                      {[phase |-> "final", n_obs |-> adata.n_obs,
                        must_complete_cover |-> adata.must_complete_cover]}
               /\ adata.phase = ""
               /\ adata.pile_of_cells = <<>>
               /\ adata.results_of_piles = <<>>
               /\ adata.piles_count = 0
               /\ adata.pc = "returned"
                      => adata.pre_directs = 0 /\ adata.final_directs = 1

\* A top-level base case that was asked for a complete cover has returned.
BaseCaseIsDirectWitness ==
    /\ Len(stack) = 1
    /\ stack[1].n_obs < stack[1].pile_min_split_size
    /\ stack[1].n_obs > 1
    /\ stack[1].must_complete_cover
    /\ stack[1].pc = "returned"
    /\ stack[1].final_directs = 1

\* The invocation is past its preliminary phase, outlier recursion included.
PreliminaryCompleted(adata) ==
    \/ adata.pc \in {"metacell_piles", "meta"}
    \/ adata.phase = "final"

\* C13: in an invocation that is past its preliminary phase (the outlier
\* recursion of the phase included) every cell has a non-negative
\* pre_metacell, whether or not the invocation was asked for a complete
\* cover.
PreliminaryCoversAllCells ==
    \A d \in 1 .. Len(stack) :
        PreliminaryCompleted(stack[d])
        => \A c \in 1 .. stack[d].n_obs : stack[d].pre_metacell[c] >= 0

\* An invocation that was not asked for a complete cover is past a
\* preliminary phase in which the outliers of the piles were computed again.
PreliminaryCoversAllCellsWitness ==
    \E d \in 1 .. Len(stack) :
        /\ PreliminaryCompleted(stack[d])
        /\ ~stack[d].must_complete_cover
        /\ stack[d].outlier_of_cells # {}
        /\ stack[d].direct_calls.preliminary > stack[d].piles_count

\* C14 (as stated): every outlier recursion is given a number of levels that
\* is strictly smaller than the number of levels of the phase that called
\* it.
OutlierLevelsStrictlyDecrease ==
    \A d \in 2 .. Len(stack) :
        stack[d].kind = "outliers"
        => /\ PhaseLevels(stack[d - 1]) # NoLevels
           /\ stack[d].max_outliers_levels # NoLevels
           /\ stack[d].max_outliers_levels[1] < PhaseLevels(stack[d - 1])[1]

\* The phase of cdata is past the decision of lines 870-875.
OutliersDecided(cdata) ==
    /\ cdata.phase # ""
    /\ cdata.pc \in {"outliers", "metacell_piles", "meta", "returned"}

\* The phase of cdata called the outlier recursion: outlier_of_cells holds
\* the cells it was called on.
OutliersRecursed(cdata) == cdata.outlier_of_cells # {}

\* There are levels left: None is no limit on the levels.
LevelsLeft(max_outliers_levels) ==
    \/ max_outliers_levels = NoLevels
    \/ max_outliers_levels[1] > 0

\* C15: once the piles of a phase are collected, the outlier recursion is
\* called if and only if some cell has no metacell and (the phase must
\* completely cover the cells or there are levels left); the recursion is
\* called on exactly these cells, with one level less (no limit stays no
\* limit); with no level left and no complete cover asked for there is no
\* recursion and every cell a pile left at -1 stays at -1.
OutliersRecursionIsAsAllowed ==
    \A d \in 1 .. Len(stack) :
        LET cdata == stack[d]
            allowed == PhaseCover(cdata) \/ LevelsLeft(PhaseLevels(cdata))
        IN  OutliersDecided(cdata)
            => /\ OutliersRecursed(cdata) => allowed
               /\ ~OutliersRecursed(cdata)
                      => OutlierOfCells(cdata) = {} \/ ~allowed
               /\ cdata.pc = "outliers" /\ d < Len(stack)
                      => /\ stack[d + 1].kind = "outliers"
                         /\ stack[d + 1].complete_cell_index =
                                Ascending(cdata.outlier_of_cells)
                         /\ stack[d + 1].max_outliers_levels =
                                IF PhaseLevels(cdata) = NoLevels THEN NoLevels
                                ELSE <<PhaseLevels(cdata)[1] - 1>>
               /\ ~allowed
                      => /\ ~OutliersRecursed(cdata)
                         /\ \A p \in 1 .. Len(cdata.results_of_piles) :
                            \A i \in 1 .. Len(cdata.results_of_piles[p].metacell) :
                                cdata.results_of_piles[p].metacell[i] = -1
                                => MetacellOfPhase(cdata)[
                                       cdata.results_of_piles[p]
                                            .complete_cell_index[i]] = -1

\* A final phase that need not cover the cells and has levels left called
\* the outlier recursion on the cells its piles left out.
OutliersRecursionIsAsAllowedWitness ==
    /\ Len(stack) = 2
    /\ stack[1].phase = "final"
    /\ stack[1].pc = "outliers"
    /\ ~stack[1].must_complete_cover
    /\ stack[1].max_outliers_levels = <<MaxLevels>>
    /\ stack[1].outlier_of_cells # {}
    /\ stack[2].max_outliers_levels = <<MaxLevels - 1>>

DirectsCountTheInvocations ==
    /\ [](\A d \in 1 .. Len(stack) :
              LET adata == stack[d]
              IN  /\ PreliminaryCompleted(adata) \/ adata.pc = "returned"
                     => adata.pre_directs = adata.direct_calls.preliminary
                  /\ adata.pc = "returned"
                     => adata.final_directs = adata.direct_calls.final)
    /\ [][\A d \in 1 .. Len(stack) :
              d <= Len(stack') /\ stack'[d].pc # "start"
              => /\ stack'[d].pre_directs >= stack[d].pre_directs
                 /\ stack'[d].final_directs >= stack[d].final_directs]_vars

\* A final phase has returned after its piles left out cells that were
\* computed again in the outlier recursion.
DirectsCountTheInvocationsWitness ==
    /\ Len(stack) = 1
    /\ stack[1].phase = "final"
    /\ stack[1].pc = "returned"
    /\ stack[1].outlier_of_cells # {}
    /\ stack[1].final_directs = stack[1].piles_count + 1
    /\ stack[1].piles_count >= 2

\* _prefix('cell_directs', 'final'): the per-cell counter a phase writes.
CellDirectsOfPhase(cdata) ==
    IF cdata.phase = "final" THEN cdata.final_cell_directs
    ELSE cdata.pre_cell_directs

InvalidSizesAreRejected ==
    \A a \in 1 .. Len(arguments) :
        LET args == arguments[a]
            invalid ==
                \/ args.target_metacell_size <= 0
                \/ /\ args.min_split_size_factor # None
                   /\ args.max_merge_size_factor # None
                   /\ args.max_merge_size_factor
                          >= args.min_split_size_factor
        IN  /\ invalid /\ args.pc # "entry"
               => /\ args.pc = "rejected"
                  /\ args.error # ""
                  /\ args.partition_calls = 0
                  /\ args.community_of_cells = <<>>
            /\ args.partition_calls > 0 => ~invalid

\* A call with a positive target and both factors positive, the merge factor
\* above the split factor, was rejected.
InvalidSizesAreRejectedWitness ==
    /\ Len(arguments) = 1
    /\ arguments[1].pc = "rejected"
    /\ arguments[1].target_metacell_size > 0
    /\ arguments[1].min_split_size_factor > 0
    /\ arguments[1].max_merge_size_factor
           > arguments[1].min_split_size_factor

\* C20 (as stated): an invocation that is given no cell raises, without
\* having called compute_direct_metacells; no call of
\* compute_direct_metacells is given zero cells; and the recursion on the
\* preliminary metacells is only entered with at least one preliminary
\* metacell.
EmptyInputIsFatal ==
    \A d \in 1 .. Len(stack) :
        LET adata == stack[d]
        IN  /\ adata.n_obs = 0 /\ adata.pc # "start"
               => /\ adata.pc = "failed"
                  /\ adata.direct_calls = NoDirectCalls
            /\ \A in \in adata.direct_inputs : in.n_obs > 0
            /\ adata.pc = "meta"
               => /\ \E c \in 1 .. adata.n_obs : adata.pre_metacell[c] >= 0
                  /\ d < Len(stack)
                  /\ stack[d + 1].n_obs > 0

(* ---------------------- properties: C21 .. C30 ------------------------- *)
\* C21 (as stated): when slice was given an invalidated_prefix and has
\* returned, every annotation the slicing invalidated (neither safe for
\* what was sliced nor a derived '__' name) is in the slice under the prefix
\* followed by its name, and the source data holds exactly the annotations
\* it held before the call.
SlicePrefixesInvalidated ==
    \A i \in 1 .. Len(sliced) :
        LET call == sliced[i]
        IN  /\ call.pc = "returned"
            /\ call.invalidated_prefix # NoPrefix
            => /\ call.adata = call.held
               /\ \A a \in call.held :
                      ActionOf(call, a, TRUE) = "prefix"
                      => Named(call.invalidated_prefix, a.name)
                             \in call.bdata

\* C22 (as stated): when the recursion on the preliminary metacells has
\* returned and the final phase is entered, the final pile of every cell is
\* the pile (the 'metacell' of the recursion) of the preliminary metacell of
\* the cell, so that cells of one preliminary metacell share their final
\* pile, and no final pile is negative.
FinalPileIsThePileOfThePreliminaryMetacell ==
    [][/\ Len(stack) >= 2
       /\ Running.pc = "returned"
       /\ Running.kind = "meta"
       /\ stack' # stack
       => LET mdata == Running
              adata == stack[Len(stack) - 1]
              final == stack'[Len(stack')]
          IN  /\ final.phase = "final"
              /\ \A c \in 1 .. adata.n_obs :
                     /\ final.pile_of_cells[c] >= 0
                     /\ adata.pre_metacell[c] >= 0
                     /\ final.pile_of_cells[c]
                            = mdata.metacell[adata.pre_metacell[c] + 1]
              /\ \A c, d \in 1 .. adata.n_obs :
                     adata.pre_metacell[c] = adata.pre_metacell[d]
                     => final.pile_of_cells[c] = final.pile_of_cells[d]]_vars

\* C23 (as stated): _compute_piled_metacells is never entered with fewer
\* than two piles, in either phase: the assertion piles_count > 1 of its
\* entry never fails.
PilesCountAssertionNeverFails ==
    \A i \in 1 .. Len(stack) :
        /\ stack[i].error # "assert piles_count > 1"
        /\ stack[i].pc \in {"piles", "collected", "outliers"}
           => stack[i].piles_count > 1

\* C24 (as stated): every call of compute_direct_metacells for a pile is
\* given must_complete_cover = True in the preliminary phase and the
\* must_complete_cover of the caller in the final phase.
PilesAreGivenTheCoverOfThePhase ==
    \A i \in 1 .. Len(stack) :
        \A p \in 1 .. Len(stack[i].results_of_piles) :
            stack[i].results_of_piles[p].done
            => stack[i].results_of_piles[p].must_complete_cover
                   = IF stack[i].phase = "preliminary" THEN TRUE
                     ELSE stack[i].must_complete_cover

\* C24 (amended): every call of compute_direct_metacells for a pile is given
\* must_complete_cover = False, in both phases; the must_complete_cover of
\* the phase (True in the preliminary phase, the caller's in the final one)
\* is given to the recursion on the outliers of the phase.
PilesAreNeverGivenTheCover ==
    \A i \in 1 .. Len(stack) :
        /\ \A p \in 1 .. Len(stack[i].results_of_piles) :
               stack[i].results_of_piles[p].done
               => ~stack[i].results_of_piles[p].must_complete_cover
        /\ /\ i < Len(stack)
           /\ stack[i].pc = "outliers"
           => stack[i + 1].must_complete_cover
                  = IF stack[i].phase = "preliminary" THEN TRUE
                    ELSE stack[i].must_complete_cover

\* The piles of a final phase whose caller asked for a complete cover were
\* computed and their outliers are being recursed on.
PilesAreNeverGivenTheCoverWitness ==
    /\ Len(stack) >= 2
    /\ stack[1].phase = "final"
    /\ stack[1].must_complete_cover
    /\ stack[1].pc = "outliers"
    /\ stack[2].kind = "outliers"
    /\ \A p \in 1 .. Len(stack[1].results_of_piles) :
           stack[1].results_of_piles[p].done

\* C25 (as stated): once the results of the piles of a phase are collected
\* the running metacells_count is one more than the greatest metacell
\* written into the vector of the phase (0 when no cell has a metacell), so
\* it never went down and a pile without any metacell left it as it was.
MetacellsCountIsTheNextMetacell ==
    \A i \in 1 .. Len(stack) :
        stack[i].pc \in {"collected", "outliers"}
        => /\ stack[i].metacells_count
                  = MaxOf(MetacellOfPhase(stack[i])) + 1
           /\ \A c \in 1 .. stack[i].n_obs :
                  MetacellOfPhase(stack[i])[c] < stack[i].metacells_count

PilesAreGivenSeedsOfTheirOwn ==
    \A i \in 1 .. Len(stack) :
        \A p \in 1 .. Len(stack[i].results_of_piles) :
            stack[i].results_of_piles[p].done
            => stack[i].results_of_piles[p].random_seed
                   = IF stack[i].random_seed # 0
                     THEN stack[i].random_seed + (p - 1) ELSE 0

\* C29 (amended): the call of compute_direct_metacells for a pile is given
\* the random_seed of the caller as it is, so all the piles of a phase are
\* given the same seed, 0 or not; the recursions are given it too.
PilesAreGivenTheSeedOfTheCaller ==
    \A i \in 1 .. Len(stack) :
        /\ \A p \in 1 .. Len(stack[i].results_of_piles) :
               stack[i].results_of_piles[p].done
               => stack[i].results_of_piles[p].random_seed
                      = stack[i].random_seed
        /\ i < Len(stack) => stack[i + 1].random_seed = stack[i].random_seed

\* Two piles of a phase were computed with a seed that is not the reserved 0.
PilesAreGivenTheSeedOfTheCallerWitness ==
    /\ stack # <<>>
    /\ stack[1].random_seed # 0
    /\ stack[1].piles_count >= 2
    /\ \A p \in 1 .. Len(stack[1].results_of_piles) :
           stack[1].results_of_piles[p].done

MonolithicIsNeverRetried ==
    [][improver_pc = "split_large" /\ partition_calls' # partition_calls
       => communities[position].mask \notin monolithic_masks]_vars

\* C32: merge_few_or_small, split_large and pack never change the member set
\* of a community that has no violation (too_few = too_small = too_large =
\* 0): its record stays in the list with its index and its members.  fill
\* changes such a community only in its borrowing branch, that is only when
\* must_complete_cover is set and the too-few communities together hold
\* fewer than min_comm_nodes nodes.
CompliantCommunitiesAreKept ==
    [][LET kept ==
               \A i \in 1 .. Len(communities) :
                   /\ communities[i].too_few = 0
                   /\ communities[i].too_small = 0
                   /\ communities[i].too_large = 0
                   => \E j \in 1 .. Len(communities') :
                          /\ communities'[j].index = communities[i].index
                          /\ communities'[j].mask = communities[i].mask
                          /\ \A n \in communities[i].mask :
                                 membership'[n] = membership[n]
           few_nodes ==
               SeqSum([i \in 1 .. Len(communities) |->
                          IF communities[i].too_few # 0
                          THEN communities[i].nodes ELSE 0])
           borrowing ==
               /\ must_complete_cover
               /\ few_nodes > 0
               /\ few_nodes < min_comm_nodes
       IN  /\ improver_pc \in {"merge_loop", "remerge", "split_large",
                               "pack"}
              => kept
           /\ improver_pc = "fill" /\ ~borrowing => kept]_vars

\* A compliant community of the initial partition is still in the list
\* after pack() and then fill() (not borrowing) regrouped other communities.
CompliantCommunitiesAreKeptWitness ==
    /\ improver_pc = "compress"
    /\ pack_nodes # {}
    /\ fill_mark < next_community_index
    /\ \E i \in 1 .. Len(communities) :
           /\ communities[i].index <= MaxOf(initial_membership)
           /\ communities[i].too_few = 0
           /\ communities[i].too_small = 0
           /\ communities[i].too_large = 0

\* C33: merge_few_or_small reports an improvement if and only if, after the
\* merge, too_few and too_small are both no greater than before and at least
\* one of them is strictly smaller.  (A merge loop of improve() stays in the
\* loop exactly when the call reported an improvement.)
MergeReportsComponentwiseImprovement ==
    [][LET reported == improver_pc' = improver_pc
           improved == /\ too_few' <= too_few
                       /\ too_small' <= too_small
                       /\ (too_few' < too_few \/ too_small' < too_small)
       IN  improver_pc \in {"merge_loop", "remerge"}
           /\ merges_count' # merges_count
           => (reported <=> improved)]_vars

\* A merge has just reported an improvement that left a penalty to merge
\* away.
MergeReportsComponentwiseImprovementWitness ==
    /\ improver_pc = "merge_loop"
    /\ merges_count = 1
    /\ too_few + too_small > 0

\* C34 (as stated): during improve() the penalty pair (too_few, too_small +
\* too_large) never increases from the end of one outer iteration to the end
\* of the next, the last iteration before the loop exits included.  At the
\* loop test after the second or a later iteration, penalty holds the pair at
\* the end of the iteration before.
PenaltyNeverIncreases ==
    improver_pc = "outer_test" /\ outer_iterations >= 2
    => ~TupleLess(penalty[1], penalty[2], too_few, too_small + too_large)

\* C35: after every add and every remove the running totals too_few,
\* too_small and too_large are the sums of the fields of the communities in
\* the list, and neither a total nor a field is negative, so whatever prefix
\* of its removals a merge, split, pack or fill has done the assertions of
\* remove hold.
TotalsAreTheSumsOfTheCommunities ==
    /\ too_few = FieldSum(communities, "too_few")
    /\ too_small = FieldSum(communities, "too_small")
    /\ too_large = FieldSum(communities, "too_large")
    /\ too_few >= 0 /\ too_small >= 0 /\ too_large >= 0
    /\ \A i \in 1 .. Len(communities) :
           /\ communities[i].too_few >= 0
           /\ communities[i].too_small >= 0
           /\ communities[i].too_large >= 0

\* pack() and fill() have both removed and added communities after a split,
\* and a penalty is left.
TotalsAreTheSumsOfTheCommunitiesWitness ==
    /\ improver_pc = "compress"
    /\ splits_count > 0
    /\ pack_nodes # {}
    /\ fill_mark < next_community_index
    /\ too_few + too_small + too_large > 0

\* C36 (as stated): after each merge, split, pack or fill every node's
\* membership value is the index of a record created by the add call that
\* follows the relabeling.
EveryNodeIsInANewCommunity ==
    [][next_community_index' # next_community_index
       => \A n \in Nodes :
              /\ membership'[n] >= next_community_index
              /\ membership'[n] < next_community_index']_vars

\* C36: community indices come from a counter that only increases.  Every
\* record in the list has an index of its own below the counter; every record
\* a step adds has an index at or above the counter before the step, so it
\* differs from every index used before, removed records included; and after
\* each merge, split, pack or fill every node the step relabelled has the
\* index of a record created by the add call of that step, while every other
\* node keeps the index of a record that stays in the list.
IndicesAreNeverReused ==
    /\ [](/\ \A i, j \in 1 .. Len(communities) :
                 communities[i].index = communities[j].index => i = j
          /\ \A i \in 1 .. Len(communities) :
                 /\ communities[i].index >= 0
                 /\ communities[i].index < next_community_index
          /\ \A n \in Nodes :
                 \E i \in 1 .. Len(communities) :
                     /\ communities[i].index = membership[n]
                     /\ n \in communities[i].mask)
    /\ [][/\ next_community_index' >= next_community_index
          /\ \A j \in 1 .. Len(communities') :
                 \/ \E i \in 1 .. Len(communities) :
                        /\ communities[i].index = communities'[j].index
                        /\ communities[i].mask = communities'[j].mask
                 \/ /\ communities'[j].index >= next_community_index
                    /\ communities'[j].index < next_community_index'
          /\ \A n \in Nodes :
                 membership'[n] # membership[n]
                 => /\ membership'[n] >= next_community_index
                    /\ membership'[n] < next_community_index'
                    /\ \E j \in 1 .. Len(communities') :
                           /\ communities'[j].index = membership'[n]
                           /\ n \in communities'[j].mask]_vars

\* The run merged, split, packed and filled, each adding records.
IndicesAreNeverReusedWitness ==
    /\ improver_pc = "compress"
    /\ merges_count > 0
    /\ splits_count > 0
    /\ pack_nodes # {}
    /\ fill_mark < next_community_index

\* C37: within one outer iteration of improve(), merge_few_or_small is run
\* again only if at least one split occurred in that iteration and a minimum
\* size bound is configured, and split_large is never invoked after a merge
\* of the same outer iteration: once the iteration is at its merge loop it
\* only stays there or goes back to the loop test, and a split pass starts
\* only from the split loop, with no merge done since the iteration began.
MergeAgainOnlyAfterASplit ==
    [][/\ improver_pc = "remerge" /\ merges_count' # merges_count
          => /\ splits_count > entered[1]
             /\ min_comm_size # None
             /\ outer_iterations >= 1
       /\ improver_pc = "remerge"
          => /\ improver_pc' \in {"remerge", "outer_test"}
             /\ splits_count' = splits_count
             /\ outer_iterations' = outer_iterations
       /\ improver_pc' = "split_large" /\ improver_pc # "split_large"
          => /\ improver_pc = "split_loop"
             /\ merges_count = entered[2]
       /\ improver_pc' = "split_loop"
          => \/ improver_pc \in {"split_loop", "split_large"}
             \/ /\ improver_pc = "outer_test"
                /\ outer_iterations' = outer_iterations + 1
       /\ splits_count' # splits_count
          => improver_pc = "split_large" /\ merges_count = entered[2]]_vars

\* A merge has just been done in an outer iteration that split.
MergeAgainOnlyAfterASplitWitness ==
    /\ improver_pc \in {"remerge", "outer_test"}
    /\ outer_iterations >= 1
    /\ merges_count > entered[2]
    /\ splits_count > entered[1]

\* C38 (as stated): in fill(), when borrowing applies, the communities
\* borrowed are compliant ones (no too-few, too-small or too-large penalty).
BorrowedCommunitiesAreCompliant ==
    [][improver_pc = "fill"
       => \A i \in 1 .. Len(communities) :
              /\ communities[i].too_few = 0
              /\ \A j \in 1 .. Len(communities') :
                     communities'[j].index # communities[i].index
              => /\ communities[i].too_small = 0
                 /\ communities[i].too_large = 0]_vars

\* C38: in fill(), when borrowing applies (must_complete_cover is set and
\* the too-few communities together hold fewer than min_comm_nodes nodes),
\* the communities without a too-few penalty, whatever their size penalties,
\* are borrowed in ascending node-count order, and borrowing stops as soon as
\* the combined node count reaches min_comm_nodes or no such community
\* remains; each borrowed community leaves the list, the others stay in
\* their order, and the nodes of the borrowed communities are regrouped by
\* the same bin_fill as those of the too-few communities, into records the
\* add of this fill creates.  When borrowing does not apply none is borrowed.
BorrowingIsAscendingAndStopsEarly ==
    [][improver_pc = "fill" /\ min_comm_nodes # None
       => LET all == 1 .. Len(communities)
              few == {i \in all : communities[i].too_few # 0}
              gone == {i \in all :
                          \A j \in 1 .. Len(communities') :
                              communities'[j].index # communities[i].index}
              borrowed == gone \ few
              few_nodes == SeqSum([i \in all |->
                               IF i \in few
                               THEN communities[i].nodes ELSE 0])
              borrowed_nodes == SeqSum([i \in all |->
                                    IF i \in borrowed
                                    THEN communities[i].nodes ELSE 0])
              applies == /\ must_complete_cover
                         /\ few # {}
                         /\ few_nodes < min_comm_nodes
              kept == Ascending(all \ gone)
          IN  /\ few \subseteq gone
              /\ ~applies => borrowed = {}
              /\ \A b \in borrowed : \A o \in all \ gone :
                     communities[b].nodes <= communities[o].nodes
              /\ \A b \in borrowed :
                     few_nodes + borrowed_nodes - communities[b].nodes
                         >= min_comm_nodes
                     => \E o \in borrowed :
                            communities[o].nodes > communities[b].nodes
              /\ applies /\ few_nodes + borrowed_nodes < min_comm_nodes
                 => gone = all
              /\ Len(communities') >= Len(kept)
              /\ \A k \in 1 .. Len(kept) :
                     communities'[k] = communities[kept[k]]
              /\ \A k \in Len(kept) + 1 .. Len(communities') :
                     communities'[k].index >= next_community_index
              /\ \A i \in gone : \A n \in communities[i].mask :
                     /\ membership'[n] >= next_community_index
                     /\ membership'[n] < next_community_index'
              /\ \A i \in all \ gone : \A n \in communities[i].mask :
                     membership'[n] = membership[n]]_vars

\* fill() has borrowed the smaller of two communities with enough nodes and
\* left the larger one in the list.
BorrowingIsAscendingAndStopsEarlyWitness ==
    /\ improver_pc = "compress"
    /\ must_complete_cover
    /\ fill_mark < next_community_index
    /\ \E i, j \in 1 .. Len(communities) :
           /\ communities[i].index < fill_mark
           /\ communities[i].nodes = 3
           /\ communities[j].index >= fill_mark
           /\ communities[j].nodes = 3
           /\ \E n \in communities[j].mask :
                  Cardinality({m \in communities[j].mask :
                      initial_membership[m] = initial_membership[n]}) = 2

\* C39: when split_large returns, every community in the list with too_large
\* > 0 is flagged monolithic, the sub-communities created by splits during
\* that same pass included.
TooLargeAreMonolithicAtReturn ==
    improver_pc = "split_large" /\ position > Len(communities)
    => \A i \in 1 .. Len(communities) :
           communities[i].too_large > 0 => communities[i].monolithic

\* split_large is about to return after a pass that split a community and
\* flagged one of the pieces, which is too large itself.
TooLargeAreMonolithicAtReturnWitness ==
    /\ improver_pc = "split_large"
    /\ position > Len(communities)
    /\ split_did_split
    /\ \E i \in 1 .. Len(communities) :
           /\ communities[i].index > MaxOf(initial_membership)
           /\ communities[i].too_large > 0
           /\ communities[i].monolithic
====
